---- MODULE Spec2Model ----
(***************************************************************************)
(* Model of the explanation-assembly and validated-generation pipeline of  *)
(* the mortality report generator: the post-generation validator           *)
(* (report_generator/validator.py), the generation client                  *)
(* (report_generator/llm.py), the knowledge store                          *)
(* (report_generator/knowledge.py) and the request pipeline                *)
(* (report_generator/generator.py).                                        *)
(*                                                                         *)
(* Texts are TLA+ strings; positions are 1-based (Python index + 1).       *)
(***************************************************************************)
EXTENDS Integers, Sequences, FiniteSets, TLC

VARIABLES
    \* ---- validator (validator.py) ----
    report_text,    \* the text handed to the validator
    corrected,      \* number of auto_correct passes applied to report_text
    val_out,        \* last result of validate: [ran, is_valid, issues, text_in]
    \* ---- generation client (llm.py) ----
    client,         \* LLMClient: [initialized]
    req,            \* per request: position, locals and result
    \* ---- knowledge store (knowledge.py) ----
    files,          \* what each artifact file turned out to hold when read
    kb,             \* the KnowledgeBase object's fields
    kb_pc,          \* position of load_all
    rate_out,       \* last value returned by get_overall_rate
    \* ---- request pipeline (generator.py) ----
    gen,            \* one generate_report request: inputs, position, report
    \* ---- the shared store (knowledge.py get_knowledge_base) ----
    share,          \* _kb_instance, the KnowledgeBase objects, the callers
    \* ---- segment matcher (matcher.py) ----
    match,          \* a fixed store and the calls made on its matcher
    \* ---- context builder (generator.py), called on its own ----
    ctx,            \* a fixed store and the context computed for records
    \* ---- structured pipeline (demo_structured.py) ----
    demo,           \* one create_report_data call: inputs, report data
    \* ---- legacy retrieval (rag_engine.py, rag_retriever.py) ----
    rag,            \* a registry, a record and the context retrieved for it
    \* ---- prompt assembly ----
    asm,             \* the last prompt assembled and what it was assembled from
    \* ---- predictor (predictor.py) ----
    pred            \* the encoders of one MortalityPredictor and the threads in predict

valVars == <<report_text, corrected, val_out>>
llmVars == <<client, req>>
kbVars  == <<files, kb, kb_pc, rate_out>>
genVars == <<gen>>
auxVars == <<share, match, ctx, demo, rag, asm, pred>>
vars    == <<report_text, corrected, val_out, client, req, files, kb, kb_pc,
             rate_out, gen, share, match, ctx, demo, rag, asm, pred>>

(***************************************************************************)
(* Bounds of the model.                                                    *)
(***************************************************************************)
MaxFrags == 2         \* an input text is built from at most this many fragments
MaxCorrections == 1   \* auto_correct passes applied to one text
NumRequests == 2      \* requests in flight on one LLMClient
MaxRetriesArg == 3    \* largest max_retries a caller passes to LLMClient.generate
MaxSpotFiles == 2     \* SPOT_*.json files in the spotlight directory

(***************************************************************************)
(* Characters and case folding (re.IGNORECASE on ASCII letters).           *)
(***************************************************************************)
UpperChars == "ABCDEFGHIJKLMNOPQRSTUVWXYZ"
LowerChars == "abcdefghijklmnopqrstuvwxyz"
DigitSet   == {"0", "1", "2", "3", "4", "5", "6", "7", "8", "9"}

CharAt(s, i) == SubSeq(s, i, i)

CharsOf(s) == {CharAt(s, k) : k \in 1..Len(s)}

LowerMap ==
    [c \in CharsOf(UpperChars) |->
        CharAt(LowerChars, CHOOSE k \in 1..Len(UpperChars) : CharAt(UpperChars, k) = c)]

Lower(c) == IF c \in DOMAIN LowerMap THEN LowerMap[c] ELSE c

\* str.lower on ASCII, by halves
RECURSIVE LowerStr(_)
LowerStr(s) ==
    IF Len(s) = 0 THEN ""
    ELSE IF Len(s) = 1 THEN Lower(s)
    ELSE LET h == Len(s) \div 2
         IN LowerStr(SubSeq(s, 1, h)) \o LowerStr(SubSeq(s, h + 1, Len(s)))

\* ignorecase: TRUE models re.IGNORECASE, FALSE a case-sensitive match; under
\* IGNORECASE text and pattern are compared with their letters folded
Fold(s, ignorecase) == IF ignorecase THEN LowerStr(s) ELSE s

\* the literal lit occurs in text at position i
StartsWith(text, i, lit) ==
    /\ i >= 1
    /\ i + Len(lit) - 1 <= Len(text)
    /\ SubSeq(text, i, i + Len(lit) - 1) = lit

\* number of consecutive digits of text from position i
RunDigits(text, i) ==
    CHOOSE n \in 0..(Len(text) + 1 - i) :
        /\ \A j \in i..(i + n - 1) : CharAt(text, j) \in DigitSet
        /\ (i + n <= Len(text) => CharAt(text, i + n) \notin DigitSet)

\* number of consecutive characters from position i that are not a newline ('.')
RunNoNewline(text, i) ==
    CHOOSE n \in 0..(Len(text) + 1 - i) :
        /\ \A j \in i..(i + n - 1) : CharAt(text, j) /= "\n"
        /\ (i + n <= Len(text) => CharAt(text, i + n) = "\n")

MaxOf(S) == CHOOSE n \in S : \A m \in S : m <= n
MinOf(S) == CHOOSE n \in S : \A m \in S : n <= m

(***************************************************************************)
(* The regular expressions of the validator, as element sequences:         *)
(*   lit s          the literal s                                          *)
(*   opt s          s?   (greedy)                                          *)
(*   alt a          (a1|a2|...), the capturing group \1                    *)
(*   optset c       [c]?  for a set c of characters                        *)
(*   digits min max \d{min,max}; max = 0 stands for no upper limit         *)
(*   anystar        .*                                                     *)
(***************************************************************************)
Lit(s)         == [k |-> "lit", s |-> s]
Opt(s)         == [k |-> "opt", s |-> s]
Alt(a)         == [k |-> "alt", a |-> a]
OptSet(c)      == [k |-> "optset", c |-> c]
Digits(lo, hi) == [k |-> "digits", min |-> lo, max |-> hi]
AnyStar        == [k |-> "anystar"]

FoldElem(e, ignorecase) ==
    CASE e.k \in {"lit", "opt"} -> [e EXCEPT !.s = Fold(e.s, ignorecase)]
      [] e.k = "alt" -> [e EXCEPT !.a = [j \in 1..Len(e.a) |-> Fold(e.a[j], ignorecase)]]
      [] OTHER -> e

FoldRe(re, ignorecase) == [k \in 1..Len(re) |-> FoldElem(re[k], ignorecase)]

\* end = position after the match (0: no match); gs, ge = span of group 1
NoMatch == [end |-> 0, gs |-> 0, ge |-> 0]

\* Match elements k.. of re at position i of text, as Python's backtracking
\* matcher does: alternatives in order, optional and repeated items greedy.
RECURSIVE MatchFrom(_, _, _, _)
MatchFrom(re, k, text, i) ==
    IF k > Len(re) THEN [end |-> i, gs |-> 0, ge |-> 0]
    ELSE LET e == re[k] IN
      CASE e.k = "lit" ->
             IF StartsWith(text, i, e.s)
             THEN MatchFrom(re, k + 1, text, i + Len(e.s))
             ELSE NoMatch
        [] e.k = "opt" ->
             LET with == IF StartsWith(text, i, e.s)
                         THEN MatchFrom(re, k + 1, text, i + Len(e.s))
                         ELSE NoMatch
             IN IF with.end > 0 THEN with
                ELSE MatchFrom(re, k + 1, text, i)
        [] e.k = "alt" ->
             LET ok == {j \in 1..Len(e.a) :
                          /\ StartsWith(text, i, e.a[j])
                          /\ MatchFrom(re, k + 1, text, i + Len(e.a[j])).end > 0}
             IN IF ok = {} THEN NoMatch
                ELSE LET j == MinOf(ok)
                         r == MatchFrom(re, k + 1, text, i + Len(e.a[j]))
                     IN [end |-> r.end, gs |-> i, ge |-> i + Len(e.a[j]) - 1]
        [] e.k = "optset" ->
             LET with == IF i <= Len(text) /\ CharAt(text, i) \in e.c
                         THEN MatchFrom(re, k + 1, text, i + 1)
                         ELSE NoMatch
             IN IF with.end > 0 THEN with
                ELSE MatchFrom(re, k + 1, text, i)
        [] e.k = "digits" ->
             LET run == RunDigits(text, i)
                 top == IF e.max > 0 /\ run > e.max THEN e.max ELSE run
                 ok  == {n \in e.min..top : MatchFrom(re, k + 1, text, i + n).end > 0}
             IN IF ok = {} THEN NoMatch
                ELSE MatchFrom(re, k + 1, text, i + MaxOf(ok))
        [] e.k = "anystar" ->
             LET run == RunNoNewline(text, i)
                 ok  == {n \in 0..run : MatchFrom(re, k + 1, text, i + n).end > 0}
             IN IF ok = {} THEN NoMatch
                ELSE MatchFrom(re, k + 1, text, i + MaxOf(ok))

\* re.search(pattern, text, flags) is not None
re_search(re, text, ignorecase) ==
    LET t == Fold(text, ignorecase)
        r == FoldRe(re, ignorecase)
    IN \E i \in 1..(Len(t) + 1) : MatchFrom(r, 1, t, i).end > 0

\* the replacement template with \1 expanded: a sequence of literals and "\\1"
RECURSIVE Expand(_, _)
Expand(repl, cap) ==
    IF repl = <<>> THEN ""
    ELSE (IF Head(repl) = "\\1" THEN cap ELSE Head(repl)) \o Expand(Tail(repl), cap)

\* re.sub: leftmost non-overlapping matches of r in the folded text t, scanned
\* left to right from position pos; each match is replaced by the expanded
\* template, everything else is copied from the original text.
\* (No pattern of the validator matches the empty string.)
RECURSIVE re_sub_from(_, _, _, _, _)
re_sub_from(r, repl, text, t, pos) ==
    LET starts == {i \in pos..Len(text) : MatchFrom(r, 1, t, i).end > i}
    IN IF starts = {} THEN SubSeq(text, pos, Len(text))
       ELSE LET i == MinOf(starts)
                m == MatchFrom(r, 1, t, i)
            IN SubSeq(text, pos, i - 1) \o Expand(repl, SubSeq(text, m.gs, m.ge))
               \o re_sub_from(r, repl, text, t, m.end)

\* re.sub(pattern, repl, text, flags)
re_sub(re, repl, text, ignorecase) ==
    re_sub_from(FoldRe(re, ignorecase), repl, text, Fold(text, ignorecase), 1)

(***************************************************************************)
(* ReportValidator (validator.py).                                         *)
(***************************************************************************)
\* the ordered (pattern, replacement) rules
PROHIBITED_PATTERNS == <<
    [re |-> <<Lit("probability of death")>>, repl |-> <<"mortality rate">>],
    [re |-> <<Lit("will die")>>,             repl |-> <<"expected deaths">>],
    [re |-> <<Lit("cause"), Opt("s"), Lit(" "),
              Alt(<<"higher", "lower", "increased", "decreased">>),
              Lit(" mortality")>>,
     repl |-> <<"is associated with ", "\\1", " mortality">>],
    [re |-> <<Lit("the model is certain")>>, repl |-> <<"the model estimates">>],
    [re |-> <<Lit("definitely")>>,           repl |-> <<"likely">>],
    [re |-> <<Lit("100% chance")>>,          repl |-> <<"high likelihood">>] >>

\* section name -> required patterns, in the dict's insertion order
REQUIRED_PATTERNS == <<
    [section |-> "Key Risk Drivers",
     res |-> << <<OptSet({"+", "-"}), Digits(1, 0), Lit("."), Digits(3, 0)>> >>],
    [section |-> "Population Context",
     res |-> << <<Digits(1, 0), Alt(<<"st", "nd", "rd", "th">>), Lit(" percentile")>> >>],
    [section |-> "Model Calibration",
     res |-> << <<Lit("A/E"), AnyStar, Digits(1, 0), Lit("."), Digits(2, 2)>> >>] >>

\* str.find(lit, start): 0-based index of the first occurrence at or after the
\* 0-based index start0, or -1
str_find(text, lit, start0) ==
    LET at == {p \in start0..(Len(text) - Len(lit)) : StartsWith(text, p + 1, lit)}
    IN IF at = {} THEN -1 ELSE MinOf(at)

\* text[a0:b0] for 0 <= a0 <= b0 (0-based, end exclusive)
str_slice(text, a0, b0) == SubSeq(text, a0 + 1, b0)

ProhibitedIssue(i) == [kind |-> "prohibited", rule |-> i]
MissingIssue(s, j) == [kind |-> "missing", section |-> s, pattern |-> j]

\* variant of prohibited_issues: the search without re.IGNORECASE
RECURSIVE prohibited_issues_case_sensitive(_, _)
prohibited_issues_case_sensitive(report, i) ==
    IF i > Len(PROHIBITED_PATTERNS) THEN <<>>
    ELSE (IF re_search(PROHIBITED_PATTERNS[i].re, report, FALSE)
          THEN <<ProhibitedIssue(i)>> ELSE <<>>)
         \o prohibited_issues_case_sensitive(report, i + 1)

\* the issues appended by the first loop of validate, rules i..
RECURSIVE prohibited_issues(_, _)
prohibited_issues(report, i) ==
    IF i > Len(PROHIBITED_PATTERNS) THEN <<>>
    ELSE (IF re_search(PROHIBITED_PATTERNS[i].re, report, TRUE)
          THEN <<ProhibitedIssue(i)>> ELSE <<>>)
         \o prohibited_issues(report, i + 1)

\* the text of a section: from the section name to the next "###" (or the end)
section_text(report, section) ==
    LET section_start == str_find(report, section, 0)
        section_end   == str_find(report, "###", section_start + 1)
    IN IF section_end > 0
       THEN str_slice(report, section_start, section_end)
       ELSE str_slice(report, section_start, Len(report))

RECURSIVE missing_in_section(_, _, _)
missing_in_section(text, s, j) ==
    IF j > Len(REQUIRED_PATTERNS[s].res) THEN <<>>
    ELSE (IF ~re_search(REQUIRED_PATTERNS[s].res[j], text, FALSE)
          THEN <<MissingIssue(s, j)>> ELSE <<>>)
         \o missing_in_section(text, s, j + 1)

\* the issues appended by the second loop of validate, sections s..
RECURSIVE required_issues(_, _)
required_issues(report, s) ==
    IF s > Len(REQUIRED_PATTERNS) THEN <<>>
    ELSE (IF str_find(report, REQUIRED_PATTERNS[s].section, 0) >= 0
          THEN missing_in_section(section_text(report, REQUIRED_PATTERNS[s].section), s, 1)
          ELSE <<>>)
         \o required_issues(report, s + 1)

validate_issues(report) == prohibited_issues(report, 1) \o required_issues(report, 1)

\* ReportValidator.validate: (is_valid, issues)
validate(report) ==
    LET issues == validate_issues(report)
    IN [is_valid |-> (Len(issues) = 0), issues |-> issues]

\* the loop of auto_correct from rule i on
RECURSIVE correct_from(_, _)
correct_from(text, i) ==
    IF i > Len(PROHIBITED_PATTERNS) THEN text
    ELSE correct_from(re_sub(PROHIBITED_PATTERNS[i].re, PROHIBITED_PATTERNS[i].repl,
                             text, TRUE),
                      i + 1)

\* ReportValidator.auto_correct
auto_correct(report) == correct_from(report, 1)

(***************************************************************************)
(* Input texts: concatenations of at most MaxFrags fragments.              *)
(***************************************************************************)
Fragments == {
    "will die", "will di", "probability of deat", "100% chance",
    "Definitely ", "smoking Causes LOWER mortality. ",
    "### Key Risk Drivers\nAge +0.0123\n",
    "### Key Risk Drivers\nAge 0.5\n",
    "### Model Calibration\nA/E\n0.98\n",
    "Model Calibration A/E = 0.98",
    "### Population Context\n92nd percentile\n" }

RECURSIVE Concat(_)
Concat(fs) == IF fs = <<>> THEN "" ELSE Head(fs) \o Concat(Tail(fs))

InputTexts == {Concat(fs) : fs \in UNION {[1..n -> Fragments] : n \in 0..MaxFrags}}

(***************************************************************************)
(* The validator as a state machine: a text is validated and corrected.    *)
(***************************************************************************)
NoVal == [ran |-> FALSE, is_valid |-> TRUE, issues |-> <<>>, text_in |-> ""]

ValIdle == report_text = "" /\ corrected = 0 /\ val_out = NoVal
LlmIdle == client = [initialized |-> FALSE, client |-> "None"] /\ req = <<>>
KbIdle  == files = <<>> /\ kb = <<>> /\ kb_pc = "idle" /\ rate_out = <<>>
GenIdle == gen = <<>>
AuxIdle == share = <<>> /\ match = <<>> /\ ctx = <<>> /\ demo = <<>> /\ rag = <<>> /\ asm = <<>> /\ pred = <<>>

ValInit ==
    /\ report_text \in InputTexts
    /\ corrected = 0
    /\ val_out = NoVal
    /\ LlmIdle /\ KbIdle /\ GenIdle /\ AuxIdle

\* validator.validate(report_text)
Validate ==
    /\ LET r == validate(report_text)
       IN val_out' = [ran |-> TRUE, is_valid |-> r.is_valid, issues |-> r.issues,
                      text_in |-> report_text]
    /\ UNCHANGED <<report_text, corrected, llmVars, kbVars, genVars, auxVars>>

\* report_text = validator.auto_correct(report_text)
AutoCorrect ==
    /\ corrected < MaxCorrections
    /\ report_text' = auto_correct(report_text)
    /\ corrected' = corrected + 1
    /\ UNCHANGED <<val_out, llmVars, kbVars, genVars, auxVars>>

ValNext == Validate \/ AutoCorrect

SpecVal == ValInit /\ [][ValNext]_vars

(***************************************************************************)
(* What the compliance policy asks of a text, stated without the           *)
(* validator's matcher: phrases, and evidence in a section.                *)
(***************************************************************************)
ProhibitedPhrases == <<
    {"probability of death"},
    {"will die"},
    {c \o " " \o d \o " mortality" :
        c \in {"cause", "causes"}, d \in {"higher", "lower", "increased", "decreased"}},
    {"the model is certain"},
    {"definitely"},
    {"100% chance"} >>

Occurs(text, lit) == \E p \in 1..Len(text) : StartsWith(text, p, lit)

IsDigitAt(text, p) == p >= 1 /\ p <= Len(text) /\ CharAt(text, p) \in DigitSet

\* rule i has a phrase somewhere in the text, whatever the case of its letters
PhraseOfRuleIn(text, i) == \E lit \in ProhibitedPhrases[i] : Occurs(LowerStr(text), lit)

\* the section named name: from its first occurrence up to the next "###"
SectionRegion(text, name) ==
    LET p  == MinOf({x \in 1..Len(text) : StartsWith(text, x, name)})
        qs == {x \in (p + 1)..Len(text) : StartsWith(text, x, "###")}
    IN IF qs = {} THEN SubSeq(text, p, Len(text)) ELSE SubSeq(text, p, MinOf(qs) - 1)

\* the evidence required of section s is in the text t of the section
EvidenceIn(t, s) ==
    CASE s = 1 -> \E p \in 1..Len(t) :
                     /\ IsDigitAt(t, p) /\ StartsWith(t, p + 1, ".")
                     /\ \A d \in 2..4 : IsDigitAt(t, p + d)
      [] s = 2 -> \E p \in 1..Len(t) :
                     /\ IsDigitAt(t, p)
                     /\ \E suf \in {"st", "nd", "rd", "th"} :
                            StartsWith(t, p + 1, suf \o " percentile")
      [] s = 3 -> \E p \in 1..Len(t), q \in 1..Len(t) :
                     /\ StartsWith(t, p, "A/E") /\ q >= p + 3
                     /\ \A x \in (p + 3)..(q - 1) : CharAt(t, x) /= "\n"
                     /\ IsDigitAt(t, q) /\ StartsWith(t, q + 1, ".")
                     /\ IsDigitAt(t, q + 2) /\ IsDigitAt(t, q + 3)

SectionNames == <<"Key Risk Drivers", "Population Context", "Model Calibration">>

ExpectedIssues(text) ==
    LET rules == SelectSeq([i \in 1..6 |-> i], LAMBDA i : PhraseOfRuleIn(text, i))
        secs  == SelectSeq([i \in 1..3 |-> i],
                           LAMBDA i : /\ Occurs(text, SectionNames[i])
                                      /\ ~EvidenceIn(SectionRegion(text, SectionNames[i]), i))
    IN [n \in 1..Len(rules) |-> ProhibitedIssue(rules[n])]
       \o [n \in 1..Len(secs) |-> MissingIssue(secs[n], 1)]

HasProhibitedIssue(issues) == \E n \in 1..Len(issues) : issues[n].kind = "prohibited"
HasMissingIssue(issues)    == \E n \in 1..Len(issues) : issues[n].kind = "missing"

\* C4 (as claimed): auto_correct is idempotent: a text that has been through
\* auto_correct is left unchanged by another auto_correct.
C4_Idempotent == corrected >= 1 => auto_correct(report_text) = report_text

\* C5 (as claimed): validating a text that auto_correct has produced reports no
\* prohibited-pattern issue.
C5_CorrectedTextIsClean ==
    (val_out.ran /\ corrected >= 1 /\ val_out.text_in = report_text)
        => ~HasProhibitedIssue(val_out.issues)

\* C6: validate returns is_valid exactly when it found no issue; its issues are
\* one per prohibited rule with a phrase in the text (any letter case, in rule
\* order) followed by one per section named in the text whose region lacks the
\* required evidence; and validate leaves the text as it was.
C6_ValidateResult ==
    /\ [](val_out.ran =>
            /\ val_out.is_valid <=> (val_out.issues = <<>>)
            /\ val_out.issues = ExpectedIssues(val_out.text_in))
    /\ [][val_out' /= val_out => (report_text' = report_text /\ val_out'.text_in = report_text)]_vars

C6_Witness ==
    /\ val_out.ran /\ ~val_out.is_valid
    /\ HasProhibitedIssue(val_out.issues) /\ HasMissingIssue(val_out.issues)
    /\ \E n \in 1..Len(val_out.text_in) : CharAt(val_out.text_in, n) \in CharsOf(UpperChars)

(***************************************************************************)
(* LLMClient (llm.py).                                                     *)
(***************************************************************************)
Requests == 1..NumRequests
Contexts == {"ctxA", "ctxB"}       \* PromptContext values of the callers

\* ActuarialInsights values (schemas.py): the text fields stand for their
\* content, the lists for their lengths
MockInsights ==
    [summary |-> "static", risk_interpretation |-> "static",
     shap_explanations |-> 2, calibration_note |-> "static",
     segment_insight |-> "None", recommendations |-> 2]
LiveInsights ==
    [summary |-> "live", risk_interpretation |-> "live",
     shap_explanations |-> 5, calibration_note |-> "live",
     segment_insight |-> "live", recommendations |-> 3]

\* a schema-valid object with more entries than the field comments name:
\* List[SHAPExplanation] and List[str] carry no length constraint
LongInsights ==
    [summary |-> "long", risk_interpretation |-> "long",
     shap_explanations |-> 6, calibration_note |-> "long",
     segment_insight |-> "None", recommendations |-> 4]

\* what the model can answer to the structured call: any schema-valid object
StructuredReplies == {LiveInsights, MockInsights, LongInsights}

\* JSON documents the model can put in a plain reply, and what json.loads
\* gives for them; any other text is a JSONDecodeError
LiveJson    == "{\"summary\": \"live\"}"
StaticJson  == "{\"summary\": \"static\"}"
LongJson    == "{\"summary\": \"long\"}"
PartialJson == "{\"note\": 1}"
ListJson    == "[1]"
JsonDocs ==
    (LiveJson :> [kind |-> "object", insights |-> LiveInsights, complete |-> TRUE])
    @@ (StaticJson :> [kind |-> "object", insights |-> MockInsights, complete |-> TRUE])
    @@ (LongJson :> [kind |-> "object", insights |-> LongInsights, complete |-> TRUE])
    @@ (PartialJson :> [kind |-> "object", insights |-> MockInsights, complete |-> FALSE])
    @@ (ListJson :> [kind |-> "array", insights |-> MockInsights, complete |-> FALSE])

\* the Markdown code fence; a TLA+ string cannot hold a backquote, so "~" stands
\* for that character in every text of the model
Fence     == "~~~"
FenceJson == "~~~json"

\* response.content of the plain (unstructured) call
PlainReplies == {
    FenceJson \o "\n" \o LiveJson \o "\n" \o Fence,
    "Here it is: " \o LiveJson \o " Done.",
    StaticJson,
    LongJson,
    FenceJson \o "\n" \o PartialJson \o "\n" \o Fence,
    FenceJson \o ListJson \o Fence,
    "{\"summary\": \"live\"",
    "} see {",
    "I cannot answer." }

\* replies of the model to LLMClient.generate
TextReplies == {"Risk report.", "[LLM not available]"}

Whitespace == {" ", "\n", "\t", "\r"}

RECURSIVE LStrip(_)
LStrip(s) == IF s /= "" /\ CharAt(s, 1) \in Whitespace THEN LStrip(SubSeq(s, 2, Len(s))) ELSE s
RECURSIVE RStrip(_)
RStrip(s) == IF s /= "" /\ CharAt(s, Len(s)) \in Whitespace
             THEN RStrip(SubSeq(s, 1, Len(s) - 1)) ELSE s

\* str.rindex(lit): 0-based index of the last occurrence, or -1 (ValueError)
str_rfind(text, lit) ==
    LET at == {p \in 0..(Len(text) - Len(lit)) : StartsWith(text, p + 1, lit)}
    IN IF at = {} THEN -1 ELSE MaxOf(at)

\* text.split(sep)[1] when sep occurs in text
split_second(text, sep) ==
    LET a == str_find(text, sep, 0) + Len(sep)
        b == str_find(text, sep, a)
    IN IF b >= 0 THEN str_slice(text, a, b) ELSE str_slice(text, a, Len(text))

\* text.split(sep)[0]
split_first(text, sep) ==
    LET b == str_find(text, sep, 0)
    IN IF b >= 0 THEN str_slice(text, 0, b) ELSE text

Raised == [exc |-> TRUE]
Value(v) == [exc |-> FALSE, value |-> v]

\* json.loads: leading and trailing whitespace is skipped
json_loads(s) ==
    LET t == RStrip(LStrip(s))
    IN IF t \in DOMAIN JsonDocs THEN Value(JsonDocs[t]) ELSE Raised

\* the extraction of the JSON text from a reply (llm.py 182-189)
extract_json(content) ==
    IF str_find(content, FenceJson, 0) >= 0
    THEN Value(split_first(split_second(content, FenceJson), Fence))
    ELSE IF str_find(content, "{", 0) >= 0
         THEN LET start == str_find(content, "{", 0)
                  last  == str_rfind(content, "}")
              IN IF last < 0 THEN Raised
                 ELSE Value(IF start <= last + 1
                            THEN str_slice(content, start, last + 1) ELSE "")
         ELSE Raised

\* ActuarialInsights(**data): a TypeError for a non-mapping, a ValidationError
\* for an object that lacks required fields
construct_insights(data) ==
    IF data.kind = "object" /\ data.complete THEN Value(data.insights) ELSE Raised

\* LLMClient._mock_insights
_mock_insights(context) == MockInsights

\* the try block of _fallback_generate; reply = [raises] or [raises, content]
fallback_try(reply) ==
    IF reply.raises THEN Raised
    ELSE LET json_str == extract_json(reply.content) IN
         IF json_str.exc THEN Raised
         ELSE LET data == json_loads(json_str.value) IN
              IF data.exc THEN Raised ELSE construct_insights(data.value)

\* variant of _fallback_generate: the exception of the try block is not caught
_fallback_generate_uncaught(reply) ==
    LET t == fallback_try(reply)
    IN IF t.exc
       THEN [exc |-> TRUE, value |-> MockInsights, via |-> "none"]
       ELSE [exc |-> FALSE, value |-> t.value, via |-> "fallback_parsed"]

\* LLMClient._fallback_generate: what it returns (or raises) and where from
_fallback_generate(reply) ==
    LET t == fallback_try(reply)
    IN IF t.exc
       THEN [exc |-> FALSE, value |-> _mock_insights("None"), via |-> "mock_fallback"]
       ELSE [exc |-> FALSE, value |-> t.value, via |-> "fallback_parsed"]

\* variant of in_range: the loop runs once more (range(max_retries + 1))
in_range_inclusive(attempt, max_retries) == attempt <= max_retries

\* range(max_retries) still has the value attempt
in_range(attempt, max_retries) == attempt < max_retries

\* what a request returned: an ActuarialInsights value, or the string of generate
NoResult      == [none |-> TRUE]
TextResult(t) == [text |-> t]

IdleReq ==
    [pc |-> "idle", op |-> "none", ctx |-> "none", max_retries |-> 0, attempt |-> 0,
     available |-> FALSE, calls |-> <<>>, reply |-> "none", result |-> NoResult,
     via |-> "none"]

Available == client.initialized /\ client.client /= "None"

LlmInit ==
    /\ client = [initialized |-> FALSE, client |-> "None"]
    /\ req = [r \in Requests |-> IdleReq]
    /\ ValIdle /\ KbIdle /\ GenIdle /\ AuxIdle

\* LLMClient.initialize; env = what the environment provides
Initialize(env) ==
    /\ client' = IF client.initialized \/ env /= "ok" THEN client
                 ELSE [initialized |-> TRUE, client |-> "ChatGoogleGenerativeAI"]
    /\ UNCHANGED <<req, valVars, kbVars, genVars, auxVars>>

\* generate_insights up to the structured call (llm.py 103-110)
CallGenerateInsights(r, context) ==
    /\ req[r].pc = "idle"
    /\ LET q == [req[r] EXCEPT !.op = "generate_insights", !.ctx = context,
                               !.available = Available]
       IN req' = [req EXCEPT ![r] =
                    IF ~Available
                    THEN [q EXCEPT !.pc = "done", !.result = _mock_insights(context),
                                   !.via = "mock_unavailable"]
                    ELSE [q EXCEPT !.pc = "structured"]]
    /\ UNCHANGED <<client, valVars, kbVars, genVars, auxVars>>

\* the structured call returns or raises (llm.py 112-119)
StructuredInvoke(r, reply) ==
    /\ req[r].pc = "structured"
    /\ req' = [req EXCEPT ![r] =
                 IF reply.raises
                 THEN [@ EXCEPT !.pc = "fallback", !.calls = Append(@, "raised")]
                 ELSE [@ EXCEPT !.pc = "done", !.calls = Append(@, "ok"),
                                !.result = reply.value, !.via = "structured"]]
    /\ UNCHANGED <<client, valVars, kbVars, genVars, auxVars>>

\* _fallback_generate: the plain call and the parsing of its reply (llm.py 122, 173-195)
FallbackGenerate(r, reply) ==
    /\ req[r].pc = "fallback"
    /\ LET res == _fallback_generate(reply)
       IN req' = [req EXCEPT ![r] =
                    [@ EXCEPT !.pc = IF res.exc THEN "raised" ELSE "done",
                              !.calls = Append(@, IF reply.raises THEN "raised" ELSE "ok"),
                              !.reply = IF reply.raises THEN "raised" ELSE reply.content,
                              !.result = IF res.exc THEN NoResult ELSE res.value,
                              !.via = IF res.exc THEN "none" ELSE res.via]]
    /\ UNCHANGED <<client, valVars, kbVars, genVars, auxVars>>

\* LLMClient.generate up to the retry loop (llm.py 237-242): q0 = the call's
\* fresh record, available = self._initialized and self.client
generate_begin(q0, available, max_retries) ==
    LET q == [q0 EXCEPT !.op = "generate", !.max_retries = max_retries,
                        !.available = available]
    IN IF ~available
       THEN [q EXCEPT !.pc = "done", !.result = TextResult("[LLM not available]"),
                      !.via = "not_available"]
       ELSE IF in_range(0, max_retries)
       THEN [q EXCEPT !.pc = "loop"]
       ELSE [q EXCEPT !.pc = "done", !.result = TextResult("[LLM call failed]"),
                      !.via = "failed"]

\* one iteration of the retry loop of generate (llm.py 242-251)
generate_attempt(q, reply) ==
    IF ~reply.raises
    THEN [q EXCEPT !.pc = "done", !.calls = Append(@, "ok"),
                   !.result = TextResult(reply.content), !.via = "content"]
    ELSE IF q.attempt = q.max_retries - 1
    THEN [q EXCEPT !.pc = "done", !.calls = Append(@, "raised"),
                   !.result = TextResult("[LLM Error: e]"), !.via = "error"]
    ELSE IF in_range(q.attempt + 1, q.max_retries)
    THEN [q EXCEPT !.attempt = @ + 1, !.calls = Append(@, "raised")]
    ELSE [q EXCEPT !.pc = "done", !.calls = Append(@, "raised"),
                   !.result = TextResult("[LLM call failed]"), !.via = "failed"]

\* a call of LLMClient.generate by request r
CallGenerate(r, max_retries) ==
    /\ req[r].pc = "idle"
    /\ req' = [req EXCEPT ![r] = generate_begin(req[r], Available, max_retries)]
    /\ UNCHANGED <<client, valVars, kbVars, genVars, auxVars>>

\* request r runs one iteration of the retry loop
GenerateAttempt(r, reply) ==
    /\ req[r].pc = "loop"
    /\ req' = [req EXCEPT ![r] = generate_attempt(req[r], reply)]
    /\ UNCHANGED <<client, valVars, kbVars, genVars, auxVars>>

RaisesReply == [raises |-> TRUE]
StructuredOutcomes == {RaisesReply} \cup {[raises |-> FALSE, value |-> v] : v \in StructuredReplies}
PlainOutcomes == {RaisesReply} \cup {[raises |-> FALSE, content |-> c] : c \in PlainReplies}
TextOutcomes  == {RaisesReply} \cup {[raises |-> FALSE, content |-> c] : c \in TextReplies}

LlmNext ==
    \/ \E env \in {"no_package", "no_api_key", "constructor_raises", "ok"} : Initialize(env)
    \/ \E r \in Requests, context \in Contexts : CallGenerateInsights(r, context)
    \/ \E r \in Requests, reply \in StructuredOutcomes : StructuredInvoke(r, reply)
    \/ \E r \in Requests, reply \in PlainOutcomes : FallbackGenerate(r, reply)
    \/ \E r \in Requests, m \in 0..MaxRetriesArg : CallGenerate(r, m)
    \/ \E r \in Requests, reply \in TextOutcomes : GenerateAttempt(r, reply)

SpecLLM == LlmInit /\ [][LlmNext]_vars

(***************************************************************************)
(* Claims about the generation client.                                     *)
(***************************************************************************)
MockSites == {"mock_unavailable", "mock_fallback"}

\* plain replies that hold one JSON document (fenced, or the only braces of the
\* text) which is a complete ActuarialInsights object
UsableReplies == {
    FenceJson \o "\n" \o LiveJson \o "\n" \o Fence,
    "Here it is: " \o LiveJson \o " Done.",
    StaticJson,
    LongJson }

InsightsDone(r)     == req[r].op = "generate_insights" /\ req[r].pc = "done"
StructuredFailed(r) == Len(req[r].calls) >= 1 /\ req[r].calls[1] = "raised"
FallbackFailed(r)   == req[r].reply = "raised"
                       \/ (req[r].reply /= "none" /\ req[r].reply \notin UsableReplies)

IsFallback(r) ==
    IF req[r].op = "generate_insights" THEN req[r].via \in MockSites
    ELSE req[r].via \in {"not_available", "error", "failed"}

\* C2 (as claimed): the returned result tells live output from fallback output:
\* a result returned as live output is never equal to one returned as fallback.
C2_LiveFlagDistinguishes ==
    \A r1, r2 \in Requests :
        (req[r1].pc = "done" /\ req[r2].pc = "done" /\ req[r1].op = req[r2].op
            /\ req[r1].result = req[r2].result)
          => (IsFallback(r1) <=> IsFallback(r2))

\* the largest number of external calls one request may make
CallBound(r) == IF req[r].op = "generate" THEN req[r].max_retries ELSE 2

\* C3: a request makes at most CallBound external calls (max_retries for
\* generate, one structured plus one fallback call for generate_insights), none
\* after its first successful call, has returned once the bound is reached, and
\* the number of calls it made is fixed by its own outcomes: it stops exactly at
\* its first success or at its bound, whatever other requests are doing.
C3_BoundedAttempts ==
    \A r \in Requests :
        req[r].op /= "none" =>
            /\ Len(req[r].calls) <= CallBound(r)
            /\ \A i \in 1..(Len(req[r].calls) - 1) : req[r].calls[i] = "raised"
            /\ Len(req[r].calls) = CallBound(r) => req[r].pc = "done"
            /\ (req[r].pc = "done" /\ req[r].available) =>
                  \/ Len(req[r].calls) = CallBound(r)
                  \/ req[r].calls[Len(req[r].calls)] = "ok"

C3_Witness ==
    \E r1, r2 \in Requests :
        /\ req[r1].op = "generate" /\ req[r1].via = "error"
        /\ Len(req[r1].calls) = 3 /\ req[r1].max_retries = 3
        /\ req[r2].op = "generate" /\ req[r2].pc = "loop" /\ req[r2].attempt = 1

(***************************************************************************)
(* KnowledgeBase (knowledge.py).                                           *)
(* A slice is None or a loaded JSON document; a document is a record of    *)
(* its keys. Rates are in units of 0.0001 (0.0097 is 97).                  *)
(***************************************************************************)
None        == [is_none |-> TRUE]
Loaded(doc) == [is_none |-> FALSE, doc |-> doc]

\* the slices in the order load_all loads them, and their files
SliceOrder ==
    <<"numerical_summary", "categorical_summary", "overall_ae", "yearly_ae",
      "global_shap", "coverage_registry", "spotlight_summary">>
Slices == {SliceOrder[i] : i \in 1..Len(SliceOrder)}

\* the return value of get_overall_rate when the calibration holds no rate
DefaultOverallRate == 97

\* contents of calibration/overall_ae.json
OverallAeDocs == {
    [overall_ae |-> 9989, overall_death_rate |-> 96, overall_rate |-> 95],
    [overall_ae |-> 9989, overall_rate |-> 95, death_rate |-> 94],
    [death_rate |-> 0],
    [overall_ae |-> 9989, total_actual_deaths |-> 5, total_expected_deaths |-> 5],
    <<>> }

SliceDocs(slice) ==
    IF slice = "overall_ae" THEN OverallAeDocs ELSE {[artifact |-> slice]}

\* what opening and parsing an artifact file can come to
JsonFileOutcomes(slice) ==
    {[state |-> "missing"], [state |-> "bad_json"], [state |-> "bad_encoding"]}
    \cup {[state |-> "ok", doc |-> d] : d \in SliceDocs(slice)}

\* KnowledgeBase._load_json: FileNotFoundError and JSONDecodeError give None;
\* the UnicodeDecodeError of a file that is not UTF-8 is not caught
_load_json(file) ==
    CASE file.state = "missing"      -> Value(None)
      [] file.state = "bad_json"     -> Value(None)
      [] file.state = "bad_encoding" -> Raised
      [] file.state = "ok"           -> Value(Loaded(file.doc))

LeafIds == {0, 1}

\* what a SPOT_*.json file can hold
SpotFileOutcomes ==
    {[state |-> "bad_json"], [state |-> "bad_encoding"], [state |-> "object_no_leaf_id"],
     [state |-> "array"], [state |-> "scalar"], [state |-> "unhashable_leaf_id"]}
    \cup {[state |-> "object", leaf_id |-> l] : l \in LeafIds}

\* the body of the loop of _load_spotlight_details for one file: JSONDecodeError
\* and KeyError are skipped; 'leaf_id' in data is a TypeError for a number or
\* null, and an unhashable leaf_id is a TypeError as a dict key
load_spotlight_file(details, file) ==
    CASE file.state \in {"bad_json", "object_no_leaf_id", "array"} -> Value(details)
      [] file.state \in {"bad_encoding", "scalar", "unhashable_leaf_id"} -> Raised
      [] file.state = "object" ->
            Value((file.leaf_id :> [leaf_id |-> file.leaf_id]) @@ details)

\* variant of get_overall_rate: the keys are tried in another order
get_overall_rate_reordered(overall_ae) ==
    IF ~overall_ae.is_none /\ DOMAIN overall_ae.doc /= {}
    THEN LET d == overall_ae.doc IN
         IF "overall_rate" \in DOMAIN d THEN d.overall_rate
         ELSE IF "overall_death_rate" \in DOMAIN d THEN d.overall_death_rate
         ELSE IF "death_rate" \in DOMAIN d THEN d.death_rate
         ELSE DefaultOverallRate
    ELSE DefaultOverallRate

\* KnowledgeBase.get_overall_rate on the calibration slice
get_overall_rate(overall_ae) ==
    IF ~overall_ae.is_none /\ DOMAIN overall_ae.doc /= {}
    THEN LET d == overall_ae.doc IN
         IF "overall_death_rate" \in DOMAIN d THEN d.overall_death_rate
         ELSE IF "overall_rate" \in DOMAIN d THEN d.overall_rate
         ELSE IF "death_rate" \in DOMAIN d THEN d.death_rate
         ELSE DefaultOverallRate
    ELSE DefaultOverallRate

\* KnowledgeBase.__init__
NewKnowledgeBase ==
    [_loaded |-> FALSE,
     numerical_summary |-> None, categorical_summary |-> None, overall_ae |-> None,
     yearly_ae |-> None, global_shap |-> None, coverage_registry |-> None,
     spotlight_summary |-> None, spotlight_details |-> <<>>]

NoRate == [called |-> FALSE]

KbInit ==
    /\ files = [json |-> [s \in Slices |-> "unread"], spotlight |-> <<>>]
    /\ kb = NewKnowledgeBase
    /\ kb_pc = "idle"
    /\ rate_out = NoRate
    /\ ValIdle /\ LlmIdle /\ GenIdle /\ AuxIdle

\* the slice the next _load_json call of load_all is for
NextSlice == SliceOrder[MinOf({i \in 1..Len(SliceOrder) : files.json[SliceOrder[i]] = "unread"})]

\* load_all is called (knowledge.py 39-42)
LoadAllBegin ==
    /\ kb_pc = "idle"
    /\ kb_pc' = IF kb._loaded THEN "done" ELSE "load_json"
    /\ UNCHANGED <<files, kb, rate_out, valVars, llmVars, genVars, auxVars>>

\* one self.x = self._load_json(path) of load_all (knowledge.py 45-57)
LoadJson(slice, file) ==
    /\ kb_pc = "load_json"
    /\ slice = NextSlice
    /\ LET r == _load_json(file)
       IN /\ files' = [files EXCEPT !.json[slice] = file.state]
          /\ kb' = IF r.exc THEN kb ELSE [kb EXCEPT ![slice] = r.value]
          /\ kb_pc' = IF r.exc THEN "raised"
                      ELSE IF slice = SliceOrder[Len(SliceOrder)] THEN "spotlight"
                      ELSE "load_json"
    /\ UNCHANGED <<rate_out, valVars, llmVars, genVars, auxVars>>

\* one file of the loop of _load_spotlight_details (knowledge.py 83-90)
LoadSpotlightFile(file) ==
    /\ kb_pc = "spotlight"
    /\ Len(files.spotlight) < MaxSpotFiles
    /\ LET r == load_spotlight_file(kb.spotlight_details, file)
       IN /\ files' = [files EXCEPT !.spotlight = Append(@, file.state)]
          /\ kb' = IF r.exc THEN kb ELSE [kb EXCEPT !.spotlight_details = r.value]
          /\ kb_pc' = IF r.exc THEN "raised" ELSE "spotlight"
    /\ UNCHANGED <<rate_out, valVars, llmVars, genVars, auxVars>>

\* the directory is missing or has no further file: load_all finishes
\* (knowledge.py 80-81, 60-63)
LoadAllEnd ==
    /\ kb_pc = "spotlight"
    /\ kb' = [kb EXCEPT !._loaded = TRUE]
    /\ kb_pc' = "done"
    /\ UNCHANGED <<files, rate_out, valVars, llmVars, genVars, auxVars>>

\* kb.get_overall_rate() on the object as it is
GetOverallRate ==
    /\ kb_pc \in {"idle", "done", "raised"}
    /\ rate_out' = [called |-> TRUE, value |-> get_overall_rate(kb.overall_ae),
                    overall_ae |-> kb.overall_ae]
    /\ UNCHANGED <<files, kb, kb_pc, valVars, llmVars, genVars, auxVars>>

KbNext ==
    \/ LoadAllBegin
    \/ \E slice \in Slices : \E file \in JsonFileOutcomes(slice) : LoadJson(slice, file)
    \/ \E file \in SpotFileOutcomes : LoadSpotlightFile(file)
    \/ LoadAllEnd
    \/ GetOverallRate

SpecKB == KbInit /\ [][KbNext]_vars

(***************************************************************************)
(* Claims about the knowledge store.                                       *)
(***************************************************************************)
\* C9 (as claimed): load_all never raises, whatever the artifacts hold; when it
\* has finished, every slice whose file was well-formed is loaded and every
\* slice whose file was missing or malformed is None.
C9_LoadAllNeverRaises ==
    /\ kb_pc /= "raised"
    /\ kb_pc = "done" =>
          \A s \in Slices :
              /\ files.json[s] = "ok" => ~kb[s].is_none
              /\ files.json[s] \in {"missing", "bad_json", "bad_encoding"} => kb[s].is_none

RateKeys == <<"overall_death_rate", "overall_rate", "death_rate">>

\* the rate a calibration slice holds: the value of its first present rate key
HoldsRate(ae) == ~ae.is_none /\ \E i \in 1..3 : RateKeys[i] \in DOMAIN ae.doc
RateHeld(ae)  == ae.doc[RateKeys[MinOf({i \in 1..3 : RateKeys[i] \in DOMAIN ae.doc})]]

FEATURES ==
    <<"Attained_Age", "Issue_Age", "Duration", "Sex", "Smoker_Status",
      "Insurance_Plan", "Face_Amount_Band", "Preferred_Class",
      "SOA_Post_Lvl_Ind", "SOA_Antp_Lvl_TP", "SOA_Guar_Lvl_TP">>
NUMERICAL_FEATURES == <<"Attained_Age", "Issue_Age", "Duration">>
CategoryContextFeatures == <<"Sex", "Smoker_Status", "Insurance_Plan", "Preferred_Class">>

\* REPORT_CONFIG['top_shap_features']
TopShapFeatures == 5
\* the max_retries default of LLMClient.generate
DefaultMaxRetries == 3

\* an optional argument: None, or a value
NoArg    == [given |-> FALSE]
Arg(v)   == [given |-> TRUE, v |-> v]

Abs(x) == IF x < 0 THEN -x ELSE x

\* round(a / b) for b > 0, to the nearest integer (ties to even)
RoundDiv(a, b) ==
    LET q == a \div b
        r == a % b
    IN IF 2 * r < b THEN q
       ELSE IF 2 * r > b THEN q + 1
       ELSE IF q % 2 = 0 THEN q ELSE q + 1

\* the JSON keys of a percentiles object that int() accepts, and their values
PercentileKeyInts ==
    ("1" :> 1) @@ ("5" :> 5) @@ ("10" :> 10) @@ ("25" :> 25) @@ ("50" :> 50)
    @@ ("75" :> 75) @@ ("90" :> 90) @@ ("95" :> 95) @@ ("99" :> 99)
str_of(p) == CHOOSE k \in DOMAIN PercentileKeyInts : PercentileKeyInts[k] = p
PercentileOrder == <<1, 5, 10, 25, 50, 75, 90, 95, 99>>

\* variant of _get_percentile: the comparison turned round
_get_percentile_reversed(pcts, value) ==
    LET hit == {i \in 1..Len(PercentileOrder) :
                  LET key == str_of(PercentileOrder[i])
                  IN IF key \in DOMAIN pcts THEN value >= pcts[key] ELSE FALSE}
    IN IF hit = {} THEN 99 ELSE PercentileOrder[MinOf(hit)]

\* ReportGenerator._get_percentile, pcts = the feature's percentiles object
_get_percentile(pcts, value) ==
    LET hit == {i \in 1..Len(PercentileOrder) :
                  LET key == str_of(PercentileOrder[i])
                  IN IF key \in DOMAIN pcts THEN value <= pcts[key] ELSE TRUE}
    IN IF hit = {} THEN 99 ELSE PercentileOrder[MinOf(hit)]

\* variant of percentile_tier: the tier boundaries exclusive
percentile_tier_exclusive(p) ==
    IF p < 10 THEN "low"
    ELSE IF p < 25 THEN "below average"
    ELSE IF p < 75 THEN "typical"
    ELSE IF p < 90 THEN "above average"
    ELSE "high"

\* the wording chosen by _get_percentile_description for breakpoint p
percentile_tier(p) ==
    IF p <= 10 THEN "low"
    ELSE IF p <= 25 THEN "below average"
    ELSE IF p <= 75 THEN "typical"
    ELSE IF p <= 90 THEN "above average"
    ELSE "high"

\* ReportGenerator._get_percentile_description; int(k) is a ValueError for a
\* key that is no integer
_get_percentile_description(pcts, feature, value) ==
    IF \E k \in DOMAIN pcts : k \notin DOMAIN PercentileKeyInts THEN Raised
    ELSE LET hit == {PercentileKeyInts[k] : k \in {x \in DOMAIN pcts : value <= pcts[x]}}
         IN IF hit = {}
            THEN Value([feature |-> feature, value |-> value, tier |-> "extreme", p |-> 100])
            ELSE Value([feature |-> feature, value |-> value,
                        tier |-> percentile_tier(MinOf(hit)), p |-> MinOf(hit)])

\* a slice used as a condition: None and the empty object are false
Truthy(slice) == ~slice.is_none /\ DOMAIN slice.doc /= {}

\* ReportGenerator._calculate_percentiles from feature i of NUMERICAL_FEATURES
\* on; kb.numerical_summary[feature]['percentiles'] is a KeyError when absent
RECURSIVE percentiles_from(_, _, _)
percentiles_from(summary, input_record, i) ==
    IF i > Len(NUMERICAL_FEATURES) THEN Value(<<>>)
    ELSE LET feature == NUMERICAL_FEATURES[i]
             rest    == percentiles_from(summary, input_record, i + 1)
         IN IF feature \in DOMAIN input_record /\ feature \in DOMAIN summary
            THEN IF "percentiles" \notin DOMAIN summary[feature] THEN Raised
                 ELSE LET pcts == summary[feature].percentiles
                          desc == _get_percentile_description(pcts, feature,
                                                              input_record[feature])
                      IN IF desc.exc \/ rest.exc THEN Raised
                         ELSE Value(<<[feature |-> feature,
                                       value |-> input_record[feature],
                                       percentile |-> _get_percentile(pcts, input_record[feature]),
                                       description |-> desc.value]>> \o rest.value)
            ELSE rest

_calculate_percentiles(store, input_record) ==
    IF ~Truthy(store.numerical_summary) THEN Value(<<>>)
    ELSE percentiles_from(store.numerical_summary.doc, input_record, 1)

\* variant of _get_category_description: an unseen value described by a share of 0
_get_category_description_placeholder(summary, feature, value) ==
    LET dist == IF "distribution" \in DOMAIN summary[feature]
                THEN summary[feature].distribution ELSE <<>>
    IN [feature |-> feature, value |-> value, kind |-> "share of population",
        pct |-> IF value \in DOMAIN dist /\ "percentage" \in DOMAIN dist[value]
                THEN dist[value].percentage ELSE 0]

\* ReportGenerator._get_category_description
_get_category_description(summary, feature, value) ==
    LET dist == IF "distribution" \in DOMAIN summary[feature]
                THEN summary[feature].distribution ELSE <<>>
    IN IF value \in DOMAIN dist
       THEN [feature |-> feature, value |-> value, kind |-> "share of population",
             pct |-> IF "percentage" \in DOMAIN dist[value] THEN dist[value].percentage ELSE 0]
       ELSE [feature |-> feature, value |-> value, kind |-> "unknown category", pct |-> 0]

\* ReportGenerator._calculate_categories from feature i on
RECURSIVE categories_from(_, _, _)
categories_from(summary, input_record, i) ==
    IF i > Len(CategoryContextFeatures) THEN <<>>
    ELSE LET feature == CategoryContextFeatures[i]
             rest    == categories_from(summary, input_record, i + 1)
         IN IF feature \in DOMAIN input_record /\ feature \in DOMAIN summary
            THEN LET value == input_record[feature]
                     dist  == IF "distribution" \in DOMAIN summary[feature]
                              THEN summary[feature].distribution ELSE <<>>
                 IN <<[feature |-> feature, value |-> value,
                       population_pct |->
                           IF value \in DOMAIN dist /\ "percentage" \in DOMAIN dist[value]
                           THEN dist[value].percentage ELSE 0,
                       description |-> _get_category_description(summary, feature, value)]>>
                    \o rest
            ELSE rest

_calculate_categories(store, input_record) ==
    IF ~Truthy(store.categorical_summary) THEN <<>>
    ELSE categories_from(store.categorical_summary.doc, input_record, 1)

\* variant of match_coverage: the first segment of the registry, whatever its leaf
match_coverage_first_segment(store, leaf_id) ==
    IF ~Truthy(store.coverage_registry) THEN None
    ELSE LET segs == IF "segments" \in DOMAIN store.coverage_registry.doc
                     THEN store.coverage_registry.doc.segments ELSE <<>>
         IN IF segs = <<>> THEN None ELSE Loaded(segs[1])

\* SegmentMatcher.match_coverage
match_coverage(store, leaf_id) ==
    IF ~Truthy(store.coverage_registry) THEN None
    ELSE LET segs == IF "segments" \in DOMAIN store.coverage_registry.doc
                     THEN store.coverage_registry.doc.segments ELSE <<>>
             hit  == {n \in 1..Len(segs) :
                        "leaf_id" \in DOMAIN segs[n] /\ segs[n].leaf_id = leaf_id}
         IN IF hit = {} THEN None ELSE Loaded(segs[MinOf(hit)])

\* SegmentMatcher.match_spotlight
match_spotlight(store, leaf_id) ==
    IF leaf_id \in DOMAIN store.spotlight_details
    THEN Loaded(store.spotlight_details[leaf_id]) ELSE None

\* an optional leaf id used as a condition: None and 0 are false
LeafGiven(leaf) == leaf.given /\ leaf.v /= 0

\* sorted(items, key=abs value, reverse=True): a stable sort
RECURSIVE insert_by_abs(_, _)
insert_by_abs(sorted, x) ==
    IF sorted = <<>> THEN <<x>>
    ELSE IF Abs(Head(sorted).shap) >= Abs(x.shap)
         THEN <<Head(sorted)>> \o insert_by_abs(Tail(sorted), x)
         ELSE <<x>> \o sorted

RECURSIVE sorted_by_abs(_)
sorted_by_abs(items) ==
    IF items = <<>> THEN <<>>
    ELSE insert_by_abs(sorted_by_abs(SubSeq(items, 1, Len(items) - 1)), items[Len(items)])

\* variant of top_shap: the first entries of the map, unsorted
top_shap_unsorted(shap_values) ==
    SubSeq(shap_values, 1, IF Len(shap_values) < TopShapFeatures
                           THEN Len(shap_values) ELSE TopShapFeatures)

\* sorted(...)[:REPORT_CONFIG['top_shap_features']]
top_shap(shap_values) ==
    LET s == sorted_by_abs(shap_values)
    IN SubSeq(s, 1, IF Len(s) < TopShapFeatures THEN Len(s) ELSE TopShapFeatures)

\* ReportGenerator._interpret_rr on rr = num / den
_interpret_rr(num, den) ==
    IF 100 * num < 50 * den THEN "Significantly lower than population average"
    ELSE IF 100 * num < 85 * den THEN "Lower than population average"
    ELSE IF 100 * num <= 115 * den THEN "Around population average"
    ELSE IF 100 * num <= 200 * den THEN "Higher than population average"
    ELSE "Significantly higher than population average"

\* ReportGenerator._interpret_calibration (A/E in units of 0.0001)
_interpret_calibration(store) ==
    IF ~Truthy(store.overall_ae) THEN "Calibration data not available"
    ELSE LET ae == IF "overall_ae" \in DOMAIN store.overall_ae.doc
                   THEN store.overall_ae.doc.overall_ae ELSE 10000
         IN IF 9500 <= ae /\ ae <= 10500 THEN "Model is well-calibrated"
            ELSE IF ae > 10500 THEN "Model tends to underestimate"
            ELSE "Model tends to overestimate"

\* ReportGenerator._build_system_prompt: the sections, in order
_build_system_prompt(store) ==
    <<"SYSTEM_BASE">>
    \o (IF Truthy(store.numerical_summary) THEN <<"numerical statistics">> ELSE <<>>)
    \o (IF Truthy(store.categorical_summary) THEN <<"categorical distribution">> ELSE <<>>)
    \o (IF Truthy(store.overall_ae) THEN <<"calibration">> ELSE <<>>)
    \o (IF Truthy(store.global_shap) THEN <<"global importance">> ELSE <<>>)

\* ReportGenerator._build_user_prompt: the sections, in order
_build_user_prompt(report) ==
    <<"query record", "prediction", "shap contributions", "population">>
    \o (IF ~report.coverage_segment.is_none THEN <<"coverage segment">> ELSE <<>>)
    \o (IF ~report.spotlight_alert.is_none THEN <<"spotlight segment">> ELSE <<>>)
    \o <<"task">>

\* self.predictor: None, or a MortalityPredictor with or without an explainer
NoPredictor == [present |-> FALSE]
Predictors ==
    {NoPredictor,
     [present |-> TRUE, explainer |-> TRUE, expected_value |-> 101234],
     [present |-> TRUE, explainer |-> FALSE, expected_value |-> 0]}

\* MortalityPredictor.get_base_value
get_base_value(predictor) ==
    IF predictor.explainer THEN predictor.expected_value ELSE 97000

\* {f: 0.0 for f in FEATURES}
MockShap == [i \in 1..Len(FEATURES) |-> [feature |-> FEATURES[i], shap |-> 0]]

\* what predictor.predict can do: raise, or return (prediction, shap_values)
PredictorOutcomes ==
    {Raised,
     Value([prediction |-> 503217,
            shap |-> <<[feature |-> "Attained_Age", shap |-> 225004],
                       [feature |-> "Duration", shap |-> -25000],
                       [feature |-> "Smoker_Status", shap |-> 150000],
                       [feature |-> "Issue_Age", shap |-> 50000],
                       [feature |-> "Face_Amount_Band", shap |-> -20000],
                       [feature |-> "Insurance_Plan", shap |-> -10000],
                       [feature |-> "Sex", shap |-> 10000],
                       [feature |-> "Preferred_Class", shap |-> -30000]>>])}

\* the arguments of one request
InputRecords ==
    {[Attained_Age |-> 75, Sex |-> "M", Smoker_Status |-> "S"],
     [Attained_Age |-> 30, Sex |-> "X"],
     [Face_Amount_Band |-> "05"]}
PredictionArgs == {NoArg, Arg(48005)}
ShapArgs ==
    {NoArg, Arg(<<[feature |-> "Sex", shap |-> 10005],
                  [feature |-> "Attained_Age", shap |-> -10005],
                  [feature |-> "Duration", shap |-> 300015]>>)}
LeafArgs == {<<NoArg, NoArg>>, <<Arg(0), NoArg>>, <<Arg(1), Arg(1)>>,
             <<Arg(2), Arg(2)>>, <<NoArg, Arg(1)>>, <<Arg(1), Arg(0)>>}

\* knowledge stores a finished load_all can leave: every slice is None or
\* whatever JSON document its file held
NumericalOk ==
    [Attained_Age |-> [percentiles |->
        ("10" :> 25) @@ ("25" :> 35) @@ ("50" :> 45) @@ ("75" :> 60) @@ ("90" :> 70)]]
CategoricalOk ==
    [Sex |-> [distribution |-> [M |-> [percentage |-> 60], F |-> [percentage |-> 40]]],
     Smoker_Status |-> [counts |-> [S |-> 10]]]
CoverageOk ==
    [segments |-> <<[leaf_id |-> 0, segment_id |-> "COV_000"],
                    [leaf_id |-> 1, segment_id |-> "COV_001"]>>]
LoadedStore(numerical, categorical, overall, coverage, spotlight) ==
    [NewKnowledgeBase EXCEPT !._loaded = TRUE,
        !.numerical_summary = numerical, !.categorical_summary = categorical,
        !.overall_ae = overall, !.coverage_registry = coverage,
        !.spotlight_details = spotlight]
SpotlightOk == (1 :> [leaf_id |-> 1, segment_id |-> "SPOT_001", risk_level |-> "high"])
GenStores ==
    {LoadedStore(None, None, None, None, <<>>),
     LoadedStore(Loaded(NumericalOk), Loaded(CategoricalOk),
                 Loaded([overall_ae |-> 9989, overall_death_rate |-> 96]),
                 Loaded(CoverageOk), SpotlightOk),
     LoadedStore(Loaded(<<>>), Loaded(<<>>), Loaded([death_rate |-> 0]),
                 Loaded(<<>>), <<>>),
     LoadedStore(Loaded(NumericalOk), None, Loaded([overall_ae |-> 11000]),
                 Loaded([version |-> 1]), SpotlightOk),
     \* valid JSON of another shape: no 'percentiles' under the feature
     LoadedStore(Loaded([Attained_Age |-> [mean |-> 52]]), Loaded(CategoricalOk),
                 None, Loaded(CoverageOk), <<>>),
     \* valid JSON of another shape: a percentile key that is no integer
     LoadedStore(Loaded([Attained_Age |-> [percentiles |-> ("median" :> 45)]]),
                 None, None, None, <<>>)}

\* the report dict built by step 7 of ReportGenerator.generate
build_report(store, predictor, input_record, prediction, shap_values, coverage_leaf_id, spotlight_leaf_id, percentile_context) ==
    LET overall_rate == get_overall_rate(store.overall_ae)
        \* relative_risk = rr_num / rr_den
        rr_num == IF overall_rate > 0 THEN prediction ELSE 1
        rr_den == IF overall_rate > 0 THEN overall_rate * 1000 ELSE 1
        sorted_shap == top_shap(shap_values)
        base_value == IF predictor.present THEN get_base_value(predictor) ELSE 97000
    IN [input |-> input_record,
        prediction |->
            [mortality_rate |-> RoundDiv(prediction, 10),
             relative_risk |-> RoundDiv(100 * rr_num, rr_den),
             interpretation |-> _interpret_rr(rr_num, rr_den)],
        shap_analysis |->
            [base_value |-> RoundDiv(base_value, 10),
             top_drivers |->
                [n \in 1..Len(sorted_shap) |->
                    [feature |-> sorted_shap[n].feature,
                     value |-> IF sorted_shap[n].feature \in DOMAIN input_record
                               THEN Arg(input_record[sorted_shap[n].feature]) ELSE NoArg,
                     shap_value |-> RoundDiv(sorted_shap[n].shap, 10),
                     direction |-> IF sorted_shap[n].shap > 0
                                   THEN "increases" ELSE "decreases"]]],
        population_context |->
            [percentiles |-> percentile_context,
             categories |-> _calculate_categories(store, input_record)],
        calibration |->
            [overall_ae |-> store.overall_ae,
             interpretation |-> _interpret_calibration(store)],
        coverage_segment |-> IF LeafGiven(coverage_leaf_id)
                             THEN match_coverage(store, coverage_leaf_id.v) ELSE None,
        spotlight_alert |-> IF LeafGiven(spotlight_leaf_id)
                            THEN match_spotlight(store, spotlight_leaf_id.v) ELSE None]

\* step 8: report["prompts"]
with_prompts(store, report) ==
    [k \in DOMAIN report \cup {"prompts"} |->
        IF k = "prompts"
        THEN [system |-> _build_system_prompt(store), user |-> _build_user_prompt(report)]
        ELSE report[k]]

\* the texts the model can answer a report prompt with
ReportReplies ==
    {"Risk report.", "Smoker will die.", "### Key Risk Drivers\nAge 0.5\n",
     "### Model Calibration\nA/E\n0.98\nsmoking Causes LOWER mortality. "}
ReportOutcomes == {RaisesReply} \cup {[raises |-> FALSE, content |-> c] : c \in ReportReplies}

NoValidation == [ran |-> FALSE]

\* a generate_report that withholds a report whose text fails validation
attach_validation_blocking(report, llm_response) ==
    LET v == validate(llm_response)
    IN IF ~v.is_valid THEN Raised
       ELSE Value([k \in DOMAIN report \cup {"llm_report"} |->
                     IF k = "llm_report" THEN llm_response ELSE report[k]])

\* generate_report lines 193-198: validate, correct and attach
attach_validation(report, llm_response) ==
    LET v == validate(llm_response)
        text == IF ~v.is_valid THEN auto_correct(llm_response) ELSE llm_response
        keys == DOMAIN report \cup {"llm_report"}
                \cup (IF ~v.is_valid THEN {"validation_issues"} ELSE {})
    IN Value([k \in keys |->
                IF k = "llm_report" THEN text
                ELSE IF k = "validation_issues" THEN v.issues
                ELSE report[k]])

\* generate_report line 200
attach_unavailable(report) ==
    [k \in DOMAIN report \cup {"llm_report"} |->
        IF k = "llm_report" THEN "[LLM not available]" ELSE report[k]]

GenInit ==
    /\ \E store \in GenStores : kb = store
    /\ files = <<>> /\ kb_pc = "idle" /\ rate_out = <<>>
    /\ \E initialized \in BOOLEAN :
          client = [initialized |-> initialized,
                    client |-> IF initialized THEN "ChatGoogleGenerativeAI" ELSE "None"]
    /\ req = <<>>
    /\ ValIdle /\ AuxIdle
    /\ \E predictor \in Predictors, has_llm \in BOOLEAN, input_record \in InputRecords,
          prediction \in PredictionArgs, shap_values \in ShapArgs, leaves \in LeafArgs :
          gen = [pc |-> "start", predictor |-> predictor, has_llm |-> has_llm,
                 input_record |-> input_record,
                 prediction |-> prediction, shap_values |-> shap_values,
                 coverage_leaf_id |-> leaves[1], spotlight_leaf_id |-> leaves[2],
                 report |-> <<>>, llm_req |-> IdleReq, llm_response |-> NoResult,
                 validation |-> NoValidation, raised_by |-> "none"]

\* step 1 of generate (generator.py 90-96); outcome = what predictor.predict does
GenPredict(outcome) ==
    /\ gen.pc = "start"
    /\ IF ~gen.prediction.given \/ ~gen.shap_values.given
       THEN IF gen.predictor.present
            THEN IF outcome.exc
                 THEN gen' = [gen EXCEPT !.pc = "raised", !.raised_by = "predictor.predict"]
                 ELSE gen' = [gen EXCEPT !.pc = "predicted",
                                         !.prediction = Arg(outcome.value.prediction),
                                         !.shap_values = Arg(outcome.value.shap)]
            ELSE gen' = [gen EXCEPT !.pc = "predicted", !.prediction = Arg(100000),
                                    !.shap_values = Arg(MockShap)]
       ELSE gen' = [gen EXCEPT !.pc = "predicted"]
    /\ UNCHANGED <<valVars, llmVars, kbVars, auxVars>>

\* steps 2-8 of generate (generator.py 98-163)
GenAssemble ==
    /\ gen.pc = "predicted"
    /\ LET percentile_context == _calculate_percentiles(kb, gen.input_record)
       IN IF percentile_context.exc
          THEN gen' = [gen EXCEPT !.pc = "raised", !.raised_by = "_calculate_percentiles"]
          ELSE gen' = [gen EXCEPT !.pc = "generated",
                        !.report = with_prompts(kb,
                            build_report(kb, gen.predictor, gen.input_record,
                                         gen.prediction.v, gen.shap_values.v,
                                         gen.coverage_leaf_id, gen.spotlight_leaf_id,
                                         percentile_context.value))]
    /\ UNCHANGED <<valVars, llmVars, kbVars, auxVars>>

\* generate_report after generate returned (generator.py 186-191, 199-202):
\* without a client the report is returned; with one, llm.generate starts
ReportCallLLM ==
    /\ gen.pc = "generated"
    /\ IF ~gen.has_llm
       THEN gen' = [gen EXCEPT !.pc = "returned", !.report = attach_unavailable(gen.report)]
       ELSE LET q == generate_begin(IdleReq, Available, DefaultMaxRetries)
            IN gen' = [gen EXCEPT !.llm_req = q,
                                  !.pc = IF q.pc = "done" THEN "validate" ELSE "llm"]
    /\ UNCHANGED <<valVars, llmVars, kbVars, auxVars>>

\* one iteration of the retry loop inside llm.generate
ReportLLMAttempt(reply) ==
    /\ gen.pc = "llm"
    /\ LET q == generate_attempt(gen.llm_req, reply)
       IN gen' = [gen EXCEPT !.llm_req = q,
                             !.pc = IF q.pc = "done" THEN "validate" ELSE "llm"]
    /\ UNCHANGED <<valVars, llmVars, kbVars, auxVars>>

\* generate_report lines 193-202
ReportValidate ==
    /\ gen.pc = "validate"
    /\ LET llm_response == gen.llm_req.result.text
           out == attach_validation(gen.report, llm_response)
       IN IF out.exc
          THEN gen' = [gen EXCEPT !.pc = "raised", !.raised_by = "validation",
                                  !.llm_response = TextResult(llm_response)]
          ELSE gen' = [gen EXCEPT !.pc = "returned", !.report = out.value,
                                  !.llm_response = TextResult(llm_response),
                                  !.validation = [ran |-> TRUE]]
    /\ UNCHANGED <<valVars, llmVars, kbVars, auxVars>>

GenNext ==
    \/ \E outcome \in PredictorOutcomes : GenPredict(outcome)
    \/ GenAssemble
    \/ ReportCallLLM
    \/ \E reply \in ReportOutcomes : ReportLLMAttempt(reply)
    \/ ReportValidate

SpecGen == GenInit /\ [][GenNext]_vars

\* C7: the only thing that ends a request without a report is a failure of the
\* predictor: whatever the knowledge slices hold, and whether or not there is a
\* model, a request that did not fail in the predictor gets its report.
C7_OnlyPredictorFailureIsFatal ==
    gen.pc = "raised" => gen.raised_by = "predictor.predict"

\* C8: a report that fails validation is still returned: it carries the text
\* after auto-correction as llm_report, and it carries validation_issues, with
\* the issues found, exactly when validation of the model's text failed;
\* without a client it carries the fixed text and no issues.
C8_ValidationNeverBlocks ==
    /\ gen.raised_by /= "validation"
    /\ gen.pc = "returned" =>
          /\ "llm_report" \in DOMAIN gen.report
          /\ IF gen.has_llm
             THEN LET text == gen.llm_response.text IN
                  /\ ("validation_issues" \in DOMAIN gen.report) <=> (ExpectedIssues(text) /= <<>>)
                  /\ "validation_issues" \in DOMAIN gen.report =>
                        /\ gen.report.validation_issues = ExpectedIssues(text)
                        /\ gen.report.llm_report = auto_correct(text)
                  /\ "validation_issues" \notin DOMAIN gen.report =>
                        gen.report.llm_report = text
             ELSE /\ gen.report.llm_report = "[LLM not available]"
                  /\ "validation_issues" \notin DOMAIN gen.report

C8_Witness ==
    /\ gen.pc = "returned"
    /\ "validation_issues" \in DOMAIN gen.report
    /\ gen.report.llm_report /= gen.llm_response.text

(***************************************************************************)
(* The shared store: get_knowledge_base (knowledge.py 124-133) called by   *)
(* concurrent threads. Each caller that finds _kb_instance None builds its *)
(* own KnowledgeBase object and loads it from the same artifact files.     *)
(***************************************************************************)
NumCallers == 2
Callers == 1..NumCallers

\* a reference to the KnowledgeBase object built by caller t, or None
NoRef  == [is_none |-> TRUE]
Ref(t) == [is_none |-> FALSE, id |-> t]

\* the artifact files on disk: what each one holds
FirstDoc(slice) == CHOOSE d \in SliceDocs(slice) : d /= <<>>
OkFiles == [slice \in Slices |-> [state |-> "ok", doc |-> FirstDoc(slice)]]
Disks ==
    {[json |-> OkFiles, spotlight |-> <<[state |-> "object", leaf_id |-> 1]>>],
     [json |-> [OkFiles EXCEPT !["numerical_summary"] = [state |-> "missing"],
                               !["overall_ae"] = [state |-> "bad_json"]],
      spotlight |-> <<>>],
     [json |-> [OkFiles EXCEPT !["global_shap"] = [state |-> "bad_encoding"]],
      spotlight |-> <<>>],
     [json |-> OkFiles,
      spotlight |-> <<[state |-> "object", leaf_id |-> 0], [state |-> "scalar"]>>]}

\* variant of instance_while_loading: the new object is assigned before it is loaded
instance_published_early(instance, ref) == ref

\* _kb_instance = KnowledgeBase(kb_path).load_all(): the right-hand side is
\* evaluated first, so the global keeps its value while the object is loading
instance_while_loading(instance, ref) == instance

IdleCaller == [pc |-> "start", k |-> 0, ret |-> NoRef, rate |-> NoRate]

ShareInit ==
    /\ \E disk \in Disks :
          share = [disk |-> disk, instance |-> NoRef,
                   heap |-> [t \in Callers |-> NewKnowledgeBase],
                   callers |-> [t \in Callers |-> IdleCaller]]
    /\ ValIdle /\ LlmIdle /\ KbIdle /\ GenIdle
    /\ match = <<>> /\ ctx = <<>> /\ demo = <<>> /\ rag = <<>> /\ asm = <<>> /\ pred = <<>>

\* if _kb_instance is None (knowledge.py 131)
ShareCheck(t) ==
    /\ share.callers[t].pc = "start"
    /\ share' = [share EXCEPT !.callers[t].pc =
                    IF share.instance.is_none THEN "construct" ELSE "return"]
    /\ UNCHANGED <<valVars, llmVars, kbVars, genVars, match, ctx, demo, rag, asm, pred>>

\* KnowledgeBase(kb_path), and load_all up to its first _load_json
ShareConstruct(t) ==
    /\ share.callers[t].pc = "construct"
    /\ share' = [share EXCEPT !.heap[t] = NewKnowledgeBase,
                              !.instance = instance_while_loading(@, Ref(t)),
                              !.callers[t].pc = "load_json", !.callers[t].k = 1]
    /\ UNCHANGED <<valVars, llmVars, kbVars, genVars, match, ctx, demo, rag, asm, pred>>

\* the k-th self.x = self._load_json(path) of load_all on caller t's object
ShareLoadJson(t) ==
    /\ share.callers[t].pc = "load_json"
    /\ LET k     == share.callers[t].k
           slice == SliceOrder[k]
           r     == _load_json(share.disk.json[slice])
       IN share' = IF r.exc
                   THEN [share EXCEPT !.callers[t].pc = "raised"]
                   ELSE [share EXCEPT !.heap[t][slice] = r.value,
                                      !.callers[t].k = IF k = Len(SliceOrder) THEN 1 ELSE k + 1,
                                      !.callers[t].pc = IF k = Len(SliceOrder)
                                                        THEN "spotlight" ELSE "load_json"]
    /\ UNCHANGED <<valVars, llmVars, kbVars, genVars, match, ctx, demo, rag, asm, pred>>

\* one file of _load_spotlight_details, or the end of load_all after the last
ShareLoadSpotlight(t) ==
    /\ share.callers[t].pc = "spotlight"
    /\ LET k == share.callers[t].k IN
       IF k > Len(share.disk.spotlight)
       THEN share' = [share EXCEPT !.heap[t]._loaded = TRUE, !.callers[t].pc = "assign"]
       ELSE LET r == load_spotlight_file(share.heap[t].spotlight_details,
                                         share.disk.spotlight[k])
            IN share' = IF r.exc
                        THEN [share EXCEPT !.callers[t].pc = "raised"]
                        ELSE [share EXCEPT !.heap[t].spotlight_details = r.value,
                                           !.callers[t].k = k + 1]
    /\ UNCHANGED <<valVars, llmVars, kbVars, genVars, match, ctx, demo, rag, asm, pred>>

\* _kb_instance = <the loaded object> (knowledge.py 132)
ShareAssign(t) ==
    /\ share.callers[t].pc = "assign"
    /\ share' = [share EXCEPT !.instance = Ref(t), !.callers[t].pc = "return"]
    /\ UNCHANGED <<valVars, llmVars, kbVars, genVars, match, ctx, demo, rag, asm, pred>>

\* return _kb_instance (knowledge.py 133)
ShareReturn(t) ==
    /\ share.callers[t].pc = "return"
    /\ share' = [share EXCEPT !.callers[t].ret = share.instance,
                              !.callers[t].pc = "returned"]
    /\ UNCHANGED <<valVars, llmVars, kbVars, genVars, match, ctx, demo, rag, asm, pred>>

\* a request reads the store it was given: kb.get_overall_rate()
ShareUse(t) ==
    /\ share.callers[t].pc = "returned"
    /\ ~share.callers[t].ret.is_none
    /\ LET obj == share.heap[share.callers[t].ret.id]
       IN share' = [share EXCEPT !.callers[t].rate =
                       [called |-> TRUE, value |-> get_overall_rate(obj.overall_ae),
                        overall_ae |-> obj.overall_ae, loaded |-> obj._loaded]]
    /\ UNCHANGED <<valVars, llmVars, kbVars, genVars, match, ctx, demo, rag, asm, pred>>

ShareNext ==
    \E t \in Callers :
        \/ ShareCheck(t)
        \/ ShareConstruct(t)
        \/ ShareLoadJson(t)
        \/ ShareLoadSpotlight(t)
        \/ ShareAssign(t)
        \/ ShareReturn(t)
        \/ ShareUse(t)

SpecShare == ShareInit /\ [][ShareNext]_vars

\* the object load_all leaves for the files of the disk
FinalSlice(file) == IF file.state = "ok" THEN Loaded(file.doc) ELSE None
FullyLoaded(obj) ==
    /\ obj._loaded
    /\ \A slice \in Slices : obj[slice] = FinalSlice(share.disk.json[slice])
    /\ \A n \in 1..Len(share.disk.spotlight) :
          share.disk.spotlight[n].state = "object" =>
             share.disk.spotlight[n].leaf_id \in DOMAIN obj.spotlight_details

\* the references a reader can hold: the global and every returned one
Published ==
    (IF share.instance.is_none THEN {} ELSE {share.instance.id})
    \cup {share.callers[t].ret.id : t \in {c \in Callers : ~share.callers[c].ret.is_none}}

\* C11: under every interleaving of callers of get_knowledge_base, each
\* reference a reader can hold (the global, or a returned one) is to an object
\* whose load_all has finished with every slice at its final value; a caller
\* that returned holds such a reference; and an object that is published is
\* never changed again, by loading or by a request reading it.
C11_NoPartialStore ==
    /\ [](\A id \in Published : FullyLoaded(share.heap[id]))
    /\ [](\A t \in Callers : share.callers[t].pc = "returned" => ~share.callers[t].ret.is_none)
    /\ [][\A id \in Published : share.heap'[id] = share.heap[id]]_vars

C11_Witness ==
    \E t1, t2 \in Callers :
        /\ t1 /= t2
        /\ share.callers[t1].pc = "returned" /\ share.callers[t1].rate.called
        /\ share.callers[t1].ret = Ref(t2)
        /\ share.callers[t2].pc = "returned"
        /\ share.heap[t1]._loaded /\ share.heap[t2]._loaded

(***************************************************************************)
(* SegmentMatcher (matcher.py) called repeatedly on one store.             *)
(***************************************************************************)
MaxCalls == 3
QueryLeafIds == {0, 1, 2}

\* coverage_registry slices: None, or the document of the file
CoverageSlices ==
    {None, Loaded(<<>>), Loaded([version |-> 1]), Loaded(CoverageOk),
     Loaded([segments |-> <<[leaf_id |-> 1, segment_id |-> "COV_A"],
                            [segment_id |-> "COV_B"],
                            [leaf_id |-> 1, segment_id |-> "COV_C"]>>])}

\* the SPOT_*.json files of a spotlight directory whose load finishes
SpotlightDirs ==
    {<<>>,
     <<[state |-> "object", leaf_id |-> 1]>>,
     <<[state |-> "object", leaf_id |-> 0], [state |-> "bad_json"],
       [state |-> "object", leaf_id |-> 1]>>,
     <<[state |-> "object_no_leaf_id"], [state |-> "array"]>>}

\* spotlight_details after _load_spotlight_details has read the files from n on
RECURSIVE load_spotlight_details(_, _, _)
load_spotlight_details(details, dir, n) ==
    IF n > Len(dir) THEN details
    ELSE load_spotlight_details(load_spotlight_file(details, dir[n]).value, dir, n + 1)

\* variant of store_after_match: the matched segment is taken out of the registry
store_after_match_consuming(store, fn, leaf_id) ==
    IF fn = "match_spotlight" /\ leaf_id \in DOMAIN store.spotlight_details
    THEN [store EXCEPT !.spotlight_details =
            [l \in DOMAIN store.spotlight_details \ {leaf_id} |-> store.spotlight_details[l]]]
    ELSE IF fn = "match_coverage" /\ ~match_coverage(store, leaf_id).is_none
    THEN [store EXCEPT !.coverage_registry = Loaded([segments |-> <<>>, version |-> 1])]
    ELSE store

\* the store after a call of the matcher: neither method assigns anything
store_after_match(store, fn, leaf_id) == store

MatchInit ==
    /\ \E cov \in CoverageSlices, dir \in SpotlightDirs :
          match = [store |-> LoadedStore(None, None, None, cov,
                                         load_spotlight_details(<<>>, dir, 1)),
                   log |-> <<>>]
    /\ ValIdle /\ LlmIdle /\ KbIdle /\ GenIdle
    /\ share = <<>> /\ ctx = <<>> /\ demo = <<>> /\ rag = <<>> /\ asm = <<>> /\ pred = <<>>

\* matcher.match_coverage(leaf_id)
MatchCoverage(leaf_id) ==
    /\ Len(match.log) < MaxCalls
    /\ match' = [store |-> store_after_match(match.store, "match_coverage", leaf_id),
                 log |-> Append(match.log,
                            [fn |-> "match_coverage", leaf_id |-> leaf_id,
                             result |-> match_coverage(match.store, leaf_id)])]
    /\ UNCHANGED <<valVars, llmVars, kbVars, genVars, share, ctx, demo, rag, asm, pred>>

\* matcher.match_spotlight(leaf_id)
MatchSpotlight(leaf_id) ==
    /\ Len(match.log) < MaxCalls
    /\ match' = [store |-> store_after_match(match.store, "match_spotlight", leaf_id),
                 log |-> Append(match.log,
                            [fn |-> "match_spotlight", leaf_id |-> leaf_id,
                             result |-> match_spotlight(match.store, leaf_id)])]
    /\ UNCHANGED <<valVars, llmVars, kbVars, genVars, share, ctx, demo, rag, asm, pred>>

MatchNext ==
    \/ \E leaf_id \in QueryLeafIds : MatchCoverage(leaf_id)
    \/ \E leaf_id \in QueryLeafIds : MatchSpotlight(leaf_id)

SpecMatch == MatchInit /\ [][MatchNext]_vars

CoverageRecords(store, leaf_id) ==
    IF store.coverage_registry.is_none
       \/ "segments" \notin DOMAIN store.coverage_registry.doc THEN {}
    ELSE {seg \in {store.coverage_registry.doc.segments[n] :
                      n \in 1..Len(store.coverage_registry.doc.segments)} :
             "leaf_id" \in DOMAIN seg /\ seg.leaf_id = leaf_id}
SpotlightRecords(store, leaf_id) ==
    {d \in {store.spotlight_details[l] : l \in DOMAIN store.spotlight_details} :
        d.leaf_id = leaf_id}
RegistryRecords(store, fn, leaf_id) ==
    IF fn = "match_coverage" THEN CoverageRecords(store, leaf_id)
    ELSE SpotlightRecords(store, leaf_id)

\* C13: each lookup returns a record of its registry whose leaf_id is the
\* queried id, and returns none exactly when the registry (the coverage
\* segment list, or the loaded spotlight details) holds no record with that
\* leaf id, as when the slice did not load.
C13_MatchingRecordOrNone ==
    \A i \in 1..Len(match.log) :
        LET e    == match.log[i]
            recs == RegistryRecords(match.store, e.fn, e.leaf_id)
        IN /\ e.result.is_none <=> (recs = {})
           /\ ~e.result.is_none => (e.result.doc \in recs /\ e.result.doc.leaf_id = e.leaf_id)

C13_Witness ==
    \E i, j, k \in 1..Len(match.log) :
        /\ match.log[i].fn = "match_coverage" /\ ~match.log[i].result.is_none
        /\ Len(match.store.coverage_registry.doc.segments) = 3
        /\ match.log[j].fn = "match_spotlight" /\ ~match.log[j].result.is_none
        /\ match.log[k].fn = "match_coverage" /\ match.log[k].result.is_none

(***************************************************************************)
(* The context builder of ReportGenerator called on its own: a fixed store *)
(* and the contexts computed for a series of records.                      *)
(***************************************************************************)
MaxContextCalls == 2

\* percentiles objects with non-decreasing breakpoints
PctsFull ==
    ("1" :> 18) @@ ("5" :> 20) @@ ("10" :> 25) @@ ("25" :> 35) @@ ("50" :> 45)
    @@ ("75" :> 60) @@ ("90" :> 70) @@ ("95" :> 80) @@ ("99" :> 90)
PctsTied  == ("25" :> 40) @@ ("50" :> 40) @@ ("75" :> 40) @@ ("90" :> 61)
PctsUpper == ("90" :> 40) @@ ("95" :> 61) @@ ("99" :> 70)
ContextStores ==
    {LoadedStore(Loaded([Attained_Age |-> [percentiles |-> PctsFull]]),
                 Loaded(CategoricalOk), None, None, <<>>),
     LoadedStore(Loaded([Attained_Age |-> [percentiles |-> NumericalOk.Attained_Age.percentiles],
                         Duration |-> [percentiles |-> PctsUpper]]),
                 Loaded(CategoricalOk), None, None, <<>>),
     LoadedStore(Loaded([Attained_Age |-> [percentiles |-> PctsTied]]),
                 Loaded([Sex |-> [distribution |-> [M |-> [percentage |-> 0]]]]),
                 None, None, <<>>),
     LoadedStore(None, None, None, None, <<>>)}
NumericalValues == {10, 25, 26, 40, 45, 61, 70, 95}
NumericalRecords ==
    {[Attained_Age |-> v] : v \in NumericalValues}
    \cup {[Attained_Age |-> 45, Duration |-> 41, Issue_Age |-> 30], [Duration |-> 95, Sex |-> "M"]}
CategoricalRecords ==
    {[Sex |-> "M"], [Sex |-> "X", Smoker_Status |-> "S"],
     [Sex |-> "F", Insurance_Plan |-> "Term"], [Attained_Age |-> 45]}

ContextInit ==
    /\ \E store \in ContextStores : ctx = [store |-> store, log |-> <<>>]
    /\ ValIdle /\ LlmIdle /\ KbIdle /\ GenIdle
    /\ share = <<>> /\ match = <<>> /\ demo = <<>> /\ rag = <<>> /\ asm = <<>> /\ pred = <<>>

\* self._calculate_percentiles(input_record)
CalculatePercentiles(input_record) ==
    /\ Len(ctx.log) < MaxContextCalls
    /\ ctx' = [ctx EXCEPT !.log = Append(@,
                  [fn |-> "percentiles", input_record |-> input_record,
                   out |-> _calculate_percentiles(ctx.store, input_record)])]
    /\ UNCHANGED <<valVars, llmVars, kbVars, genVars, share, match, demo, rag, asm, pred>>

\* self._calculate_categories(input_record)
CalculateCategories(input_record) ==
    /\ Len(ctx.log) < MaxContextCalls
    /\ ctx' = [ctx EXCEPT !.log = Append(@,
                  [fn |-> "categories", input_record |-> input_record,
                   out |-> Value(_calculate_categories(ctx.store, input_record))])]
    /\ UNCHANGED <<valVars, llmVars, kbVars, genVars, share, match, demo, rag, asm, pred>>

ContextNext ==
    \/ \E input_record \in NumericalRecords : CalculatePercentiles(input_record)
    \/ \E input_record \in CategoricalRecords : CalculateCategories(input_record)

SpecContext == ContextInit /\ [][ContextNext]_vars

\* the order of the tiers a description can name
TierRank(tier) ==
    CASE tier = "low" -> 1 [] tier = "below average" -> 2 [] tier = "typical" -> 3
      [] tier = "above average" -> 4 [] tier = "high" -> 5 [] tier = "extreme" -> 6

PercentileCalls == {i \in 1..Len(ctx.log) : ctx.log[i].fn = "percentiles"}
CategoryCalls   == {i \in 1..Len(ctx.log) : ctx.log[i].fn = "categories"}

\* C14: with non-decreasing breakpoints, for two values v1 <= v2 of the same
\* feature, the percentile returned by _get_percentile and the tier named by
\* _get_percentile_description for v1 are at most those for v2.
C14_PercentileMonotone ==
    \A i, j \in PercentileCalls :
        \A a \in 1..Len(ctx.log[i].out.value), b \in 1..Len(ctx.log[j].out.value) :
            LET e1 == ctx.log[i].out.value[a]
                e2 == ctx.log[j].out.value[b]
            IN (e1.feature = e2.feature /\ e1.value <= e2.value) =>
                  /\ e1.percentile <= e2.percentile
                  /\ TierRank(e1.description.tier) <= TierRank(e2.description.tier)
                  /\ e1.description.p <= e2.description.p

C14_Witness ==
    \E i, j \in PercentileCalls :
        /\ Len(ctx.log[i].out.value) = 1 /\ Len(ctx.log[j].out.value) = 1
        /\ ctx.log[i].out.value[1].value < ctx.log[j].out.value[1].value
        /\ ctx.log[i].out.value[1].percentile < ctx.log[j].out.value[1].percentile
        /\ ctx.log[i].out.value[1].description.tier = "below average"
        /\ ctx.log[j].out.value[1].description.tier = "extreme"

\* the stored breakpoints of a feature whose threshold is at least v
BreakpointsAtLeast(store, feature, v) ==
    LET pcts == store.numerical_summary.doc[feature].percentiles
    IN {PercentileKeyInts[k] : k \in {x \in DOMAIN pcts : pcts[x] >= v}}

\* the tier the description must name for breakpoint p
TierOf(p) ==
    IF p <= 10 THEN {"low"}
    ELSE IF p <= 25 THEN {"below average"}
    ELSE IF p <= 75 THEN {"typical"}
    ELSE IF p <= 90 THEN {"above average"}
    ELSE {"high", "extreme"}

\* the numerical features with an entry: those in the record and in the store
ExpectedNumerical(store, input_record) ==
    IF store.numerical_summary.is_none THEN <<>>
    ELSE SelectSeq(NUMERICAL_FEATURES,
                   LAMBDA f : f \in DOMAIN input_record
                              /\ f \in DOMAIN store.numerical_summary.doc)

\* C15: the percentile context has one entry for each numerical feature that
\* is in the record and in the store, and none for any other; the entry
\* describes the value by the smallest stored breakpoint whose threshold is at
\* least the value: low up to the 10th, below average up to the 25th, typical
\* up to the 75th, above average up to the 90th, and top beyond, as for a
\* value above every breakpoint.
C15_PercentileDescription ==
    \A i \in PercentileCalls :
        LET e        == ctx.log[i]
            expected == ExpectedNumerical(ctx.store, e.input_record)
        IN /\ ~e.out.exc
           /\ Len(e.out.value) = Len(expected)
           /\ \A n \in 1..Len(expected) :
                LET entry == e.out.value[n]
                    at    == BreakpointsAtLeast(ctx.store, expected[n], e.input_record[expected[n]])
                IN /\ entry.feature = expected[n]
                   /\ entry.value = e.input_record[expected[n]]
                   /\ entry.description.feature = expected[n]
                   /\ entry.description.value = entry.value
                   /\ IF at = {} THEN entry.description.tier = "extreme"
                      ELSE /\ entry.description.p = MinOf(at)
                           /\ entry.description.tier \in TierOf(MinOf(at))

C15_Witness ==
    \E i \in PercentileCalls :
        /\ Len(ctx.log[i].out.value) = 2
        /\ "Issue_Age" \in DOMAIN ctx.log[i].input_record
        /\ ctx.log[i].out.value[1].description.tier = "typical"
        /\ ctx.log[i].out.value[2].description.tier = "high"

\* the stored distribution of a categorical feature
StoredDistribution(store, feature) ==
    IF "distribution" \in DOMAIN store.categorical_summary.doc[feature]
    THEN store.categorical_summary.doc[feature].distribution ELSE <<>>

RrAnomalyThreshold == 15

ReportBuilt == gen.pc \in {"generated", "llm", "validate", "returned"}

\* relative_risk = prediction / overall_rate if overall_rate > 0 else 1.0,
\* as the fraction <<numerator, denominator>>
RelativeRiskOf(store, prediction) ==
    LET overall_rate == get_overall_rate(store.overall_ae)
    IN IF overall_rate > 0 THEN <<prediction, overall_rate * 1000>> ELSE <<1, 1>>

\* |RR - 1| <= rr_anomaly_threshold
InsideNormalBand(rr) == 100 * Abs(rr[1] - rr[2]) <= RrAnomalyThreshold * rr[2]

\* C17: a report carries a spotlight alert only if the relative risk of the
\* request falls outside the normal band |RR - 1| <= rr_anomaly_threshold: no
\* report whose relative risk is inside the band carries a spotlight alert.
C17_SpotlightOnlyOutsideBand ==
    (ReportBuilt /\ InsideNormalBand(RelativeRiskOf(kb, gen.prediction.v)))
        => ~Truthy(gen.report.spotlight_alert)

(***************************************************************************)
(* The structured pipeline: find_matching_segment and create_report_data   *)
(* (demo_structured.py 133-284). Mortality rates are in units of 0.00001,  *)
(* SHAP values in units of 0.0000001, A/E in units of 0.0001; a relative   *)
(* risk or a rule threshold is a fraction <<numerator, denominator>>.      *)
(***************************************************************************)
DigitChars == "0123456789"
DigitValue(c) == CHOOSE d \in 0..9 : CharAt(DigitChars, d + 1) = c

\* int() of a string of decimal digits
RECURSIVE int_of_digits(_)
int_of_digits(digits) ==
    IF digits = "" THEN 0
    ELSE 10 * int_of_digits(SubSeq(digits, 1, Len(digits) - 1))
         + DigitValue(CharAt(digits, Len(digits)))

RECURSIVE Pow10(_)
Pow10(k) == IF k = 0 THEN 1 ELSE 10 * Pow10(k - 1)

AllDigits(s) == \A k \in 1..Len(s) : CharAt(s, k) \in DigitSet

\* the value of the numeral whole.frac, as a fraction
decimal_value(whole, frac, negative) ==
    IF AllDigits(whole) /\ AllDigits(frac) /\ (whole /= "" \/ frac /= "")
    THEN LET magnitude == int_of_digits(whole) * Pow10(Len(frac)) + int_of_digits(frac)
         IN Value(<<IF negative THEN -magnitude ELSE magnitude, Pow10(Len(frac))>>)
    ELSE Raised

\* float() of a text without surrounding whitespace
float_of_stripped(t) ==
    LET signed == t /= "" /\ CharAt(t, 1) \in {"+", "-"}
        u == IF signed THEN SubSeq(t, 2, Len(t)) ELSE t
        dot == str_find(u, ".", 0)
    IN CHOOSE r \in {decimal_value(whole, frac, signed /\ CharAt(t, 1) = "-") :
                        whole \in {IF dot >= 0 THEN str_slice(u, 0, dot) ELSE u},
                        frac \in {IF dot >= 0 THEN str_slice(u, dot + 1, Len(u)) ELSE ""}} : TRUE

\* float(s) of a plain decimal numeral (optional sign, digits, optional point
\* and digits): the value as a fraction; any other text here is a ValueError
float_of(s) == CHOOSE r \in {float_of_stripped(t) : t \in {RStrip(LStrip(s))}} : TRUE

\* dict.get(key, default)
dict_get(d, key, default) == IF key \in DOMAIN d THEN d[key] ELSE default

plan_map == [Term |-> 0, UL |-> 1, ULSG |-> 2, VUL |-> 3, WL |-> 4]
smoker_map == [NS |-> 1, S |-> 2]

\* the four features a rule can test, as find_matching_segment encodes them
rule_features(input_record) ==
    [Attained_Age |-> dict_get(input_record, "Attained_Age", 0),
     Duration |-> dict_get(input_record, "Duration", 0),
     Insurance_Plan |-> dict_get(plan_map, dict_get(input_record, "Insurance_Plan", "Term"), 0),
     Smoker_Status |-> dict_get(smoker_map, dict_get(input_record, "Smoker_Status", "NS"), 1)]

\* the test of one rule on the encoded features, given its parts
rule_test(feat, sep, threshold, encoded) ==
    IF threshold.exc THEN Raised
    ELSE IF feat \notin DOMAIN encoded THEN Value(TRUE)
    ELSE IF sep = "<="
         THEN Value(encoded[feat] * threshold.value[2] <= threshold.value[1])
         ELSE Value(encoded[feat] * threshold.value[2] > threshold.value[1])

\* the branch a rule takes: '<=' in rule, elif '>' in rule, else neither
rule_separator(rule) ==
    IF str_find(rule, "<=", 0) >= 0 THEN "<="
    ELSE IF str_find(rule, ">", 0) >= 0 THEN ">" ELSE ""

\* one rule of a segment (demo_structured.py 153-177): FALSE when the rule
\* sets match = False, a ValueError when float() rejects the threshold; a rule
\* with neither '<=' nor '>', or on another feature, leaves match alone
rule_holds(rule, encoded) ==
    CHOOSE r \in {IF sep = "" THEN Value(TRUE)
                  ELSE rule_test(RStrip(LStrip(split_first(rule, sep))), sep,
                                 float_of(split_second(rule, sep)), encoded) :
                     sep \in {rule_separator(rule)}} : TRUE

\* the inner loop over seg.get('rules', []): every rule is evaluated, there
\* is no break after match = False
segment_matches(seg, encoded) ==
    CHOOSE r \in {IF \E n \in DOMAIN held : held[n].exc THEN Raised
                  ELSE Value(\A n \in DOMAIN held : held[n].value) :
                     held \in {[n \in 1..Len(dict_get(seg, "rules", <<>>)) |->
                                  rule_holds(seg.rules[n], encoded)]}} : TRUE

\* the outer loop from segment i on: the first segment whose rules all hold
RECURSIVE find_matching_from(_, _, _)
find_matching_from(segs, encoded, i) ==
    IF i > Len(segs) THEN Value(None)
    ELSE CHOOSE r \in {IF m.exc THEN Raised
                       ELSE IF m.value THEN Value(Loaded(segs[i]))
                       ELSE find_matching_from(segs, encoded, i + 1) :
                          m \in {segment_matches(segs[i], encoded)}} : TRUE

\* find_matching_segment(input_record, kb)
find_matching_segment(input_record, store) ==
    IF ~Truthy(store.coverage_registry) THEN Value(None)
    ELSE CHOOSE r \in {find_matching_from(segs, encoded, 1) :
                          segs \in {dict_get(store.coverage_registry.doc, "segments", <<>>)},
                          encoded \in {rule_features(input_record)}} : TRUE

\* format(n, 'd') for n >= 0
RECURSIVE format_d(_)
format_d(n) ==
    IF n < 10 THEN CharAt(DigitChars, n + 1)
    ELSE format_d(n \div 10) \o CharAt(DigitChars, (n % 10) + 1)

\* variant of format_03d: no padding
format_03d_unpadded(n) == format_d(n)

\* format(n, '03d') for n >= 0: zero-padded to a minimum width of 3
format_03d(n) ==
    LET digits == format_d(n)
    IN IF Len(digits) >= 3 THEN digits ELSE SubSeq("000", 1, 3 - Len(digits)) \o digits

\* str(x) of a float with one decimal, x in units of 0.1
format_tenths(x) == format_d(x \div 10) \o "." \o format_d(x % 10)

\* "high" if cov_seg.get('statistics', {}).get('exposure', 0) > 50000 else "medium"
credibility_of(cov_seg) ==
    LET exposure == dict_get(dict_get(cov_seg, "statistics", <<>>), "exposure", 0)
    IN IF exposure > 50000 THEN "high" ELSE "medium"

\* df[column].sum()
RECURSIVE column_sum(_, _)
column_sum(df, column) ==
    IF df = <<>> THEN 0 ELSE df[1][column] + column_sum(Tail(df), column)

\* the ReportData of create_report_data(sample, df, predictor, kb), or the
\* exception that leaves it; outcome is what predictor.predict does and
\* chart_exists whether data/reports/shap_waterfall.png is there. ae_ratio and
\* relative_risk of a segment are in units of 0.0001.
create_report_data(sample, df, outcome, store, chart_exists) ==
    IF \E n \in 1..Len(FEATURES) : FEATURES[n] \notin DOMAIN sample THEN Raised
    ELSE IF outcome.exc THEN Raised
    ELSE
    LET input_record == [f \in {FEATURES[n] : n \in 1..Len(FEATURES)} |-> sample[f]]
        mortality_rate == outcome.value.prediction
        shap_dict == outcome.value.shap
        deaths == column_sum(df, "Death_Count")
        exposed == column_sum(df, "Policies_Exposed")
        \* relative_risk = mortality_rate / (deaths / exposed)
        relative_risk == <<mortality_rate * exposed, 100000 * deaths>>
        sorted_shap == sorted_by_abs(shap_dict)
        top == SubSeq(sorted_shap, 1, IF Len(sorted_shap) < 5 THEN Len(sorted_shap) ELSE 5)
        less(feat) == Cardinality({n \in 1..Len(df) : df[n][feat] < sample[feat]})
        equal(feat) == Cardinality({n \in 1..Len(df) : df[n][feat] = sample[feat]})
        pct(feat) == (100 * less(feat)) \div Len(df)
        population_pct(feat) == RoundDiv(1000 * equal(feat), Len(df))
        context_features == <<"Sex", "Smoker_Status", "Insurance_Plan">>
        cov_seg == find_matching_segment(input_record, store)
        statistics == dict_get(cov_seg.value.doc, "statistics", <<>>)
    IN IF cov_seg.exc THEN Raised
       ELSE Value(
        [input_record |-> input_record,
         prediction |->
            [mortality_rate |-> mortality_rate,
             relative_risk |-> relative_risk,
             overall_death_rate |-> <<deaths, exposed>>,
             interpretation |-> IF relative_risk[1] > relative_risk[2]
                                THEN "higher" ELSE "lower"],
         shap_contributions |->
            [n \in 1..Len(top) |->
                [feature |-> top[n].feature,
                 value |-> dict_get(input_record, top[n].feature, "N/A"),
                 shap_value |-> top[n].shap,
                 direction |-> IF top[n].shap > 0 THEN "Increases" ELSE "Decreases"]],
         percentile_context |->
            [n \in 1..Len(NUMERICAL_FEATURES) |->
                LET feat == NUMERICAL_FEATURES[n] IN
                [feature |-> feat, value |-> sample[feat], percentile |-> pct(feat),
                 description |-> feat \o "=" \o format_d(sample[feat]) \o " is at the "
                                 \o format_d(pct(feat)) \o "th percentile"]],
         category_context |->
            [n \in 1..Len(context_features) |->
                LET feat == context_features[n] IN
                [feature |-> feat, value |-> sample[feat],
                 population_pct |-> population_pct(feat),
                 description |-> feat \o "=" \o sample[feat] \o " ("
                                 \o format_tenths(population_pct(feat))
                                 \o "% of population)"]],
         coverage_segment |->
            IF Truthy(cov_seg.value)
            THEN Loaded([segment_id |-> cov_seg.value.doc.segment_id,
                         rule_text |-> cov_seg.value.doc.rule_text,
                         ae_ratio |-> dict_get(statistics, "ae_ratio", 10000),
                         relative_risk |-> dict_get(statistics, "relative_risk", 10000),
                         credibility |-> credibility_of(cov_seg.value.doc)])
            ELSE None,
         spotlight_segment |->
            IF relative_risk[1] > 3 * relative_risk[2]
            THEN Loaded([segment_id |-> "SPOT_HIGH_"
                            \o format_03d((10 * relative_risk[1]) \div relative_risk[2]),
                         rule_text |-> "Attained_Age="
                            \o format_d(input_record["Attained_Age"])
                            \o " AND Smoker_Status="
                            \o input_record["Smoker_Status"],
                         ae_ratio |-> 10000, relative_risk |-> relative_risk,
                         credibility |-> "model_derived",
                         risk_level |-> IF relative_risk[1] > 5 * relative_risk[2]
                                        THEN "high_risk" ELSE "elevated"])
            ELSE None,
         overall_ae |-> IF Truthy(store.overall_ae)
                        THEN dict_get(store.overall_ae.doc, "overall_ae", 9989) ELSE 9989,
         evidence_charts |-> IF chart_exists THEN <<"shap_waterfall.png">> ELSE <<>>])

\* TEST_SAMPLE (demo_structured.py 39-51)
TEST_SAMPLE ==
    [Attained_Age |-> 88, Issue_Age |-> 56, Duration |-> 33, Sex |-> "M",
     Smoker_Status |-> "S", Insurance_Plan |-> "UL",
     Face_Amount_Band |-> "03: 25,000 - 49,999", Preferred_Class |-> "NA",
     SOA_Post_Lvl_Ind |-> "NA", SOA_Antp_Lvl_TP |-> "N/A (Not Term)",
     SOA_Guar_Lvl_TP |-> "N/A (Not Term)"]

\* the samples a request is made for: the test sample, rows of the data, and
\* a record that lacks a feature
Samples ==
    {TEST_SAMPLE,
     [TEST_SAMPLE EXCEPT !.Attained_Age = 35, !.Issue_Age = 30, !.Duration = 5,
                         !.Sex = "F", !.Smoker_Status = "NS", !.Insurance_Plan = "Term"],
     [TEST_SAMPLE EXCEPT !.Attained_Age = 60, !.Issue_Age = 40, !.Duration = 20,
                         !.Smoker_Status = "NS", !.Insurance_Plan = "WL"],
     [TEST_SAMPLE EXCEPT !.Attained_Age = 60, !.Issue_Age = 50, !.Duration = 10,
                         !.Sex = "F", !.Insurance_Plan = "Term"],
     [TEST_SAMPLE EXCEPT !.Attained_Age = 70, !.Issue_Age = 40, !.Duration = 30,
                         !.Insurance_Plan = "Term"],
     [Attained_Age |-> 88, Smoker_Status |-> "S"]}

\* the loaded data: rows with exposure and at least one death
Row(age, issue, duration, sex, smoker, plan, deaths, exposed) ==
    [Attained_Age |-> age, Issue_Age |-> issue, Duration |-> duration, Sex |-> sex,
     Smoker_Status |-> smoker, Insurance_Plan |-> plan,
     Death_Count |-> deaths, Policies_Exposed |-> exposed]
DataFrames ==
    {<<Row(35, 30, 5, "F", "NS", "Term", 0, 25), Row(60, 40, 20, "M", "NS", "WL", 0, 25),
       Row(70, 40, 30, "M", "S", "Term", 1, 25), Row(88, 56, 32, "M", "NS", "UL", 0, 25)>>,
     <<Row(45, 40, 5, "F", "NS", "Term", 0, 400), Row(60, 50, 10, "F", "S", "Term", 1, 300),
       Row(90, 60, 30, "M", "NS", "WL", 0, 300)>>}

\* what predictor.predict can do in the structured pipeline
DemoShap ==
    {<<[feature |-> "Attained_Age", shap |-> 225004],
       [feature |-> "Duration", shap |-> -25000],
       [feature |-> "Smoker_Status", shap |-> 150000],
       [feature |-> "Issue_Age", shap |-> 50000],
       [feature |-> "Face_Amount_Band", shap |-> -20000],
       [feature |-> "Insurance_Plan", shap |-> -150000],
       [feature |-> "Sex", shap |-> 10000]>>,
     <<[feature |-> "Sex", shap |-> 0], [feature |-> "Model_Offset", shap |-> -5]>>}
MortalityRates == {500, 3000, 3040, 5000, 6080, 12345}
DemoOutcomes ==
    {Raised} \cup {Value([prediction |-> m, shap |-> sh]) : m \in MortalityRates, sh \in DemoShap}

\* coverage registries a finished load can leave
Segment(id, rules, statistics) ==
    [segment_id |-> id, rule_text |-> id \o " rules", rules |-> rules,
     statistics |-> statistics]
DemoRegistries ==
    {None,
     Loaded([segments |->
        <<Segment("COV_000", <<"Attained_Age <= 40.5">>,
                  [exposure |-> 80000, ae_ratio |-> 9900, relative_risk |-> 4000]),
          Segment("COV_001", <<"Attained_Age > 40.5", "Smoker_Status <= 1.5">>,
                  [exposure |-> 30000, ae_ratio |-> 10100]),
          Segment("COV_002", <<"Attained_Age > 40.5", "Smoker_Status > 1.5", "Duration<=20">>,
                  [exposure |-> 5000]),
          Segment("COV_003", <<"Insurance_Plan > 0.5", "Sex > 1">>,
                  [exposure |-> 50000])>>]),
     Loaded([segments |->
        <<Segment("COV_000", <<"Attained_Age <= 40.5">>, [exposure |-> 50001]),
          Segment("COV_001", <<"Smoker_Status <= 1.5", "Face_Amount_Band">>,
                  [exposure |-> 10000]),
          Segment("COV_002", <<"Duration > 30">>, [exposure |-> 9999]),
          [segment_id |-> "COV_003", rule_text |-> "otherwise"]>>]),
     Loaded([segments |->
        <<Segment("COV_000", <<"Attained_Age <= 40.5">>, [exposure |-> 10001]),
          Segment("COV_001", <<"Duration <= 15", "Attained_Age >= 50">>,
                  [exposure |-> 60000]),
          Segment("COV_002", <<>>, [ae_ratio |-> 9800])>>]),
     Loaded([version |-> 1])}
DemoStores ==
    {LoadedStore(None, None, overall, coverage, <<>>) :
        overall \in {None, Loaded([overall_ae |-> 10200])}, coverage \in DemoRegistries}

DemoInit ==
    /\ \E store \in DemoStores : kb = store
    /\ files = <<>> /\ kb_pc = "idle" /\ rate_out = <<>>
    /\ ValIdle /\ LlmIdle /\ GenIdle
    /\ share = <<>> /\ match = <<>> /\ ctx = <<>> /\ rag = <<>> /\ asm = <<>> /\ pred = <<>>
    /\ \E sample \in Samples, df \in DataFrames :
          demo = [pc |-> "start", sample |-> sample, df |-> df,
                  outcome |-> Raised, report_data |-> <<>>]

\* one call of create_report_data (demo_structured.py 184-284)
CreateReportData(outcome, chart_exists) ==
    /\ demo.pc = "start"
    /\ LET out == create_report_data(demo.sample, demo.df, outcome, kb, chart_exists)
       IN IF out.exc
          THEN demo' = [demo EXCEPT !.pc = "raised", !.outcome = outcome]
          ELSE demo' = [demo EXCEPT !.pc = "returned", !.outcome = outcome,
                                    !.report_data = out.value]
    /\ UNCHANGED <<valVars, llmVars, kbVars, genVars, share, match, ctx, rag, asm, pred>>

DemoNext ==
    \E outcome \in DemoOutcomes, chart_exists \in BOOLEAN :
        CreateReportData(outcome, chart_exists)

SpecDemo == DemoInit /\ [][DemoNext]_vars

\* the relative risk in the returned report data, and floor(RR * 10)
DemoRR == demo.report_data.prediction.relative_risk
DemoRRTimes10 == (10 * DemoRR[1]) \div DemoRR[2]

\* the number of decimal digits of n >= 1
DigitCount(n) == CHOOSE k \in 1..12 : Pow10(k - 1) <= n /\ n < Pow10(k)

\* C18: create_report_data gives a record whose relative risk exceeds 3 a
\* spotlight segment whose identifier is SPOT_HIGH_ followed by int(RR*10)
\* written in decimal and zero-padded to 3 digits, and whose risk level is
\* high_risk when RR > 5 and elevated otherwise; a record with RR <= 3 gets
\* no spotlight segment.
C18_SpotlightIdentifier ==
    demo.pc = "returned" =>
        LET seg == demo.report_data.spotlight_segment IN
        IF DemoRR[1] > 3 * DemoRR[2]
        THEN /\ ~seg.is_none
             /\ LET id == seg.doc.segment_id
                    suffix == SubSeq(id, 11, Len(id))
                IN /\ SubSeq(id, 1, 10) = "SPOT_HIGH_"
                   /\ AllDigits(suffix)
                   /\ int_of_digits(suffix) = DemoRRTimes10
                   /\ Len(suffix) = IF DigitCount(DemoRRTimes10) > 3
                                    THEN DigitCount(DemoRRTimes10) ELSE 3
             /\ seg.doc.risk_level = IF DemoRR[1] > 5 * DemoRR[2]
                                     THEN "high_risk" ELSE "elevated"
        ELSE seg.is_none

\* the scenario of the claim: RR 6.08 gives SPOT_HIGH_060, high_risk
C18_Witness ==
    /\ demo.pc = "returned"
    /\ 100 * DemoRR[1] = 608 * DemoRR[2]
    /\ ~demo.report_data.spotlight_segment.is_none
    /\ demo.report_data.spotlight_segment.doc.segment_id = "SPOT_HIGH_060"
    /\ demo.report_data.spotlight_segment.doc.risk_level = "high_risk"

\* the credibility tiers of the metrics table (prompt_builder.py 223)
CredibilityTier(exposure) ==
    IF exposure > 50000 THEN "high" ELSE IF exposure >= 10000 THEN "medium" ELSE "low"

\* the registry segment the returned coverage segment was built from
MatchedSegment ==
    LET segs == kb.coverage_registry.doc.segments
    IN segs[CHOOSE n \in 1..Len(segs) :
                segs[n].segment_id = demo.report_data.coverage_segment.doc.segment_id]

\* C19: the credibility attached to a coverage segment follows the exposure
\* of the segment: high for exposure > 50k, medium for 10k to 50k, low for
\* exposure < 10k.
C19_CredibilityTiers ==
    (/\ demo.pc = "returned"
     /\ ~demo.report_data.coverage_segment.is_none
     /\ "statistics" \in DOMAIN MatchedSegment
     /\ "exposure" \in DOMAIN MatchedSegment.statistics)
        => demo.report_data.coverage_segment.doc.credibility
               = CredibilityTier(MatchedSegment.statistics.exposure)

\* C20: the report's top_drivers holds min(N, number of attributions)
\* entries, N = top_shap_features; they are the attributions of largest
\* absolute value, and they are listed in non-increasing order of absolute
\* value.
C20_TopDrivers ==
    ReportBuilt =>
        LET shap == gen.shap_values.v
            top == gen.report.shap_analysis.top_drivers
            chosen == {i \in 1..Len(shap) :
                          \E n \in 1..Len(top) : top[n].feature = shap[i].feature}
        IN /\ Len(top) = IF Len(shap) < TopShapFeatures THEN Len(shap) ELSE TopShapFeatures
           /\ Cardinality(chosen) = Len(top)
           /\ \A n \in 1..Len(top) : \E i \in chosen :
                 /\ shap[i].feature = top[n].feature
                 /\ top[n].shap_value = RoundDiv(shap[i].shap, 10)
           /\ \A i \in chosen, j \in (1..Len(shap)) \ chosen :
                 Abs(shap[i].shap) >= Abs(shap[j].shap)
           /\ \A n \in 1..(Len(top) - 1) :
                 Abs(top[n].shap_value) >= Abs(top[n + 1].shap_value)

C20_Witness ==
    /\ ReportBuilt
    /\ Len(gen.shap_values.v) > TopShapFeatures
    /\ Len(gen.report.shap_analysis.top_drivers) = TopShapFeatures
    /\ gen.report.shap_analysis.top_drivers[1].feature /= gen.shap_values.v[1].feature
       \/ Abs(gen.shap_values.v[TopShapFeatures + 1].shap)
              < Abs(gen.report.shap_analysis.top_drivers[TopShapFeatures].shap_value) * 10

(***************************************************************************)
(* The bounds of ActuarialInsights (schemas.py 40-64), checked under       *)
(* SpecLLM on what generate_insights returns.                              *)
(***************************************************************************)
\* "Recommendations (max 3)" (schemas.py 63)
MaxRecommendations == 3

\* C21: every insights object generate_insights returns, whether from the
\* structured call, from the parsed plain reply or from _mock_insights, holds
\* at most top-N per-feature explanations and at most 3 recommendations.
C21_InsightsWithinBounds ==
    \A r \in Requests :
        InsightsDone(r) =>
            /\ req[r].result.shap_explanations <= TopShapFeatures
            /\ req[r].result.recommendations <= MaxRecommendations

(***************************************************************************)
(* Legacy retrieval: KnowledgeBase._check_condition and the segment loop   *)
(* of find_relevant_context / get_query_context (rag_engine.py 31-80,      *)
(* rag_retriever.py 42-66). A condition is a Python expression handed to   *)
(* eval(condition, {}, data_point). Python values carry their type.        *)
(***************************************************************************)
PyInt(n) == [t |-> "int", v |-> n]
PyStr(x) == [t |-> "str", v |-> x]
PyBool(b) == [t |-> "bool", v |-> b]
PyNone == [t |-> "none", v |-> FALSE]

\* bool(value)
py_truth(value) ==
    IF value.t = "int" THEN value.v /= 0
    ELSE IF value.t = "str" THEN value.v /= ""
    ELSE value.v

\* what evaluating an expression does: it gives a value, raises an Exception,
\* or raises SystemExit (a BaseException); executed tells whether it ran code
\* other than comparisons of names and literals
PyValue(value, executed) == [kind |-> "value", value |-> value, executed |-> executed]
PyException(executed) == [kind |-> "exception", executed |-> executed]
PyExit == [kind |-> "exit", executed |-> TRUE]

\* text.split(sep)
RECURSIVE str_split(_, _)
str_split(text, sep) ==
    CHOOSE r \in {IF p < 0 THEN <<text>>
                  ELSE <<str_slice(text, 0, p)>>
                       \o str_split(str_slice(text, p + Len(sep), Len(text)), sep) :
                     p \in {str_find(text, sep, 0)}} : TRUE

IdentStart == CharsOf(UpperChars) \cup CharsOf(LowerChars) \cup {"_"}
IsIdentifier(t) ==
    /\ t /= "" /\ CharAt(t, 1) \in IdentStart
    /\ \A k \in 1..Len(t) : CharAt(t, k) \in IdentStart \cup DigitSet
IsStringLiteral(t) ==
    /\ Len(t) >= 2 /\ CharAt(t, 1) = "'" /\ CharAt(t, Len(t)) = "'"
    /\ \A k \in 2..(Len(t) - 1) : CharAt(t, k) \notin {"'", "\\", "\n"}
IsIntLiteral(t) == t /= "" /\ AllDigits(t) /\ (Len(t) = 1 \/ CharAt(t, 1) /= "0")

\* operands that are neither a name nor a literal, with what Python does for
\* them under eval(condition, {}, data_point): the builtins are in scope
OtherOperands ==
    ("__import__('os').system('true')" :> PyValue(PyInt(0), TRUE))
    @@ ("exit()" :> PyExit)
    @@ ("1/0" :> PyException(FALSE))
    @@ ("open('/tmp/x', 'w').close()" :> PyValue(PyNone, TRUE))

\* the operand is an expression Python can compile
operand_compiles(t) ==
    IsIdentifier(t) \/ IsStringLiteral(t) \/ IsIntLiteral(t) \/ t \in DOMAIN OtherOperands

\* evaluation of one operand: a literal, a name looked up in data_point (the
\* locals) and then in the builtins, or another expression
eval_operand(t, data_point) ==
    IF IsIntLiteral(t) THEN PyValue(PyInt(int_of_digits(t)), FALSE)
    ELSE IF IsStringLiteral(t) THEN PyValue(PyStr(SubSeq(t, 2, Len(t) - 1)), FALSE)
    ELSE IF IsIdentifier(t)
         THEN IF t \in DOMAIN data_point THEN PyValue(data_point[t], FALSE)
              ELSE IF t = "True" THEN PyValue(PyBool(TRUE), FALSE)
              ELSE IF t = "False" THEN PyValue(PyBool(FALSE), FALSE)
              ELSE PyException(FALSE)
    ELSE OtherOperands[t]

ComparisonOperators == {"<=", ">=", "==", "!=", "<", ">"}

\* the comparison operator of a text: the leftmost one, the longer one first;
\* <<position, operator>>, or <<0, "">> when there is none
find_operator(text) ==
    LET at == {k \in 1..Len(text) : \E op \in ComparisonOperators : StartsWith(text, k, op)}
    IN IF at = {} THEN <<0, "">>
       ELSE CHOOSE r \in {<<k, IF Len(text) > k /\ SubSeq(text, k, k + 1) \in ComparisonOperators
                               THEN SubSeq(text, k, k + 1) ELSE CharAt(text, k)>> :
                             k \in {MinOf(at)}} : TRUE

\* a comparison a op b, or a lone operand: <<op, a, b>> with the operands stripped
comparison_parts(text) ==
    CHOOSE r \in {IF f[1] = 0 THEN <<"", RStrip(LStrip(text)), "">>
                  ELSE <<f[2], RStrip(LStrip(SubSeq(text, 1, f[1] - 1))),
                         RStrip(LStrip(SubSeq(text, f[1] + Len(f[2]), Len(text))))>> :
                     f \in {find_operator(text)}} : TRUE

comparison_compiles(parts) ==
    operand_compiles(parts[2]) /\ (parts[1] /= "" => operand_compiles(parts[3]))

\* the order of the characters of names and values
Alphabet == DigitChars \o UpperChars \o "_" \o LowerChars
Ord(c) == CHOOSE k \in 1..Len(Alphabet) : CharAt(Alphabet, k) = c
RECURSIVE str_less(_, _)
str_less(a, b) ==
    IF b = "" THEN FALSE
    ELSE IF a = "" THEN TRUE
    ELSE IF CharAt(a, 1) /= CharAt(b, 1) THEN Ord(CharAt(a, 1)) < Ord(CharAt(b, 1))
    ELSE str_less(Tail(a), Tail(b))

\* a bool compares as the int it is
py_number(value) ==
    IF value.t = "bool" THEN PyInt(IF value.v THEN 1 ELSE 0) ELSE value

\* a op b on two values: == and != are defined between any two values, the
\* orderings between two ints or two strs and a TypeError otherwise
compare_values(op, x, y) ==
    LET a == py_number(x)
        b == py_number(y)
        same == a.t = b.t /\ a.v = b.v
        ordered == a.t = b.t /\ a.t \in {"int", "str"}
        less == IF a.t = "int" THEN a.v < b.v ELSE str_less(a.v, b.v)
    IN IF op = "==" THEN PyValue(PyBool(same), FALSE)
       ELSE IF op = "!=" THEN PyValue(PyBool(~same), FALSE)
       ELSE IF ~ordered THEN PyException(FALSE)
       ELSE IF op = "<" THEN PyValue(PyBool(less), FALSE)
       ELSE IF op = "<=" THEN PyValue(PyBool(less \/ same), FALSE)
       ELSE IF op = ">" THEN PyValue(PyBool(~less /\ ~same), FALSE)
       ELSE PyValue(PyBool(~less), FALSE)

\* evaluation of a compiled comparison: left operand, right operand, compare
eval_comparison(parts, data_point) ==
    CHOOSE r \in {IF parts[1] = "" \/ a.kind /= "value" THEN a
                  ELSE CHOOSE q \in {IF b.kind /= "value"
                                     THEN [b EXCEPT !.executed = a.executed \/ b.executed]
                                     ELSE [compare_values(parts[1], a.value, b.value)
                                              EXCEPT !.executed = a.executed \/ b.executed] :
                                        b \in {eval_operand(parts[3], data_point)}} : TRUE :
                     a \in {eval_operand(parts[2], data_point)}} : TRUE

\* x1 and x2 and ...: the first falsy value, else the last; evaluation stops
\* there, and at the first operand that raises
RECURSIVE eval_and(_, _, _)
eval_and(terms, data_point, i) ==
    CHOOSE r \in {IF x.kind /= "value" \/ i = Len(terms) \/ ~py_truth(x.value) THEN x
                  ELSE CHOOSE q \in {[rest EXCEPT !.executed = x.executed \/ rest.executed] :
                                        rest \in {eval_and(terms, data_point, i + 1)}} : TRUE :
                     x \in {eval_comparison(terms[i], data_point)}} : TRUE

\* y1 or y2 or ...: the first truthy value, else the last
RECURSIVE eval_or(_, _, _)
eval_or(clauses, data_point, i) ==
    CHOOSE r \in {IF y.kind /= "value" \/ i = Len(clauses) \/ py_truth(y.value) THEN y
                  ELSE CHOOSE q \in {[rest EXCEPT !.executed = y.executed \/ rest.executed] :
                                        rest \in {eval_or(clauses, data_point, i + 1)}} : TRUE :
                     y \in {eval_and(clauses[i], data_point, 1)}} : TRUE

\* the condition as clauses joined by or, each a sequence of comparisons
\* joined by and ('and' binds tighter than 'or')
parse_condition(condition) ==
    CHOOSE r \in {[i \in DOMAIN ors |->
                     CHOOSE q \in {[j \in DOMAIN ands |-> comparison_parts(ands[j])] :
                                      ands \in {str_split(ors[i], " and ")}} : TRUE] :
                     ors \in {str_split(condition, " or ")}} : TRUE

\* eval(condition, {}, data_point): a text that does not compile is a
\* SyntaxError before anything is evaluated
python_eval(condition, data_point) ==
    CHOOSE r \in {IF \A i \in DOMAIN clauses : \A j \in DOMAIN clauses[i] :
                        comparison_compiles(clauses[i][j])
                  THEN eval_or(clauses, data_point, 1)
                  ELSE PyException(FALSE) :
                     clauses \in {parse_condition(condition)}} : TRUE

\* variant of _check_condition: an Exception counts as a match
_check_condition_lenient(condition, data_point) ==
    CHOOSE r \in {IF e.kind = "exception" THEN PyValue(PyBool(TRUE), e.executed) ELSE e :
                     e \in {python_eval(condition, data_point)}} : TRUE

\* KnowledgeBase._check_condition: the value of eval, False for an Exception;
\* a SystemExit is no Exception and leaves the method
_check_condition(condition, data_point) ==
    CHOOSE r \in {IF e.kind = "exception" THEN PyValue(PyBool(FALSE), e.executed) ELSE e :
                     e \in {python_eval(condition, data_point)}} : TRUE

\* the segment loop (rag_engine.py 77-80, rag_retriever.py 63-66) from segment
\* i on; segment["condition"] is a KeyError for a segment without the key.
\* matched = the segments appended so far, executed = whether a condition
\* ran code other than comparisons
RECURSIVE match_risk_segments(_, _, _, _, _)
match_risk_segments(risk_segments, input_data, i, matched, executed) ==
    IF i > Len(risk_segments)
    THEN [kind |-> "value", matched |-> matched, executed |-> executed]
    ELSE IF "condition" \notin DOMAIN risk_segments[i]
    THEN [kind |-> "exception", matched |-> matched, executed |-> executed]
    ELSE CHOOSE r \in
            {IF c.kind = "exit"
             THEN [kind |-> "exit", matched |-> matched, executed |-> TRUE]
             ELSE match_risk_segments(risk_segments, input_data, i + 1,
                     IF py_truth(c.value) THEN Append(matched, risk_segments[i])
                     ELSE matched,
                     executed \/ c.executed) :
                c \in {_check_condition(risk_segments[i].condition, input_data)}} : TRUE

(***************************************************************************)
(* json.dumps(obj, indent=2) on the values the prompts embed. A JSON value *)
(* carries its kind; a float is kept as the text repr() gives for it, a    *)
(* dict as its items in insertion order.                                   *)
(***************************************************************************)
JStr(text) == [j |-> "str", s |-> text]
JNum(text) == [j |-> "num", s |-> text]
JList(items) == [j |-> "list", items |-> items]
JDict(items) == [j |-> "dict", items |-> items]

\* text.replace(old, new)
RECURSIVE str_replace(_, _, _)
str_replace(text, old, new) ==
    CHOOSE r \in {IF p < 0 THEN text
                  ELSE str_slice(text, 0, p) \o new
                       \o str_replace(str_slice(text, p + Len(old), Len(text)), old, new) :
                     p \in {str_find(text, old, 0)}} : TRUE

\* the JSON encoding of a str: quoted, with backslash, quote and newline escaped
encode_basestring(text) ==
    "\"" \o str_replace(str_replace(str_replace(text, "\\", "\\\\"), "\"", "\\\""), "\n", "\\n") \o "\""

\* the newline and indentation before an item nested at the given level
newline_indent(level) == "\n" \o SubSeq("                    ", 1, 2 * level)

\* the encoded items joined by the item separator
RECURSIVE join_items(_, _)
join_items(chunks, sep) ==
    IF Len(chunks) = 0 THEN ""
    ELSE IF Len(chunks) = 1 THEN chunks[1]
    ELSE chunks[1] \o sep \o join_items(Tail(chunks), sep)

\* json.dumps(value, indent=2), the value nested at the given level
RECURSIVE json_dumps_at(_, _)
json_dumps_at(value, level) ==
    IF value.j = "str" THEN encode_basestring(value.s)
    ELSE IF value.j = "num" THEN value.s
    ELSE IF value.j = "list"
    THEN IF value.items = <<>> THEN "[]"
         ELSE "[" \o newline_indent(level + 1)
              \o join_items([k \in DOMAIN value.items |->
                                json_dumps_at(value.items[k], level + 1)],
                            "," \o newline_indent(level + 1))
              \o newline_indent(level) \o "]"
    ELSE IF value.items = <<>> THEN "{}"
         ELSE "{" \o newline_indent(level + 1)
              \o join_items([k \in DOMAIN value.items |->
                                encode_basestring(value.items[k][1]) \o ": "
                                \o json_dumps_at(value.items[k][2], level + 1)],
                            "," \o newline_indent(level + 1))
              \o newline_indent(level) \o "}"

json_dumps(value) == json_dumps_at(value, 0)

\* lit in text
str_contains(text, lit) == str_find(text, lit, 0) >= 0

\* dict.get(key, default) on the items of a dict
items_get(items, key, default) ==
    IF \E k \in DOMAIN items : items[k][1] = key
    THEN items[CHOOSE k \in DOMAIN items : items[k][1] = key][2]
    ELSE default
items_has(items, key) == \E k \in DOMAIN items : items[k][1] = key

(***************************************************************************)
(* The legacy knowledge base (rag_engine.py, rag_retriever.py) and its two *)
(* callers, ModelExplainer (explainability_interface.py) and               *)
(* ExplanationSystem (main.py). The files of the knowledge base directory  *)
(* are the input: risk_segments.json, eda_summary.json, shap_analysis.json *)
(* and external_knowledge/*.md.                                            *)
(***************************************************************************)
\* risk_segments.json as generate_knowledge_base.py writes it
seg_young_select ==
    [id |-> "seg_young_select", name |-> "Young & New Policyholders",
     condition |-> "issue_age < 35 and duration <= 2", ae_ratio |-> "0.92",
     description |-> "Mortality is significantly lower (~8% below expectation). Strong selection effect observed.",
     key_drivers |-> <<"duration", "issue_age">>]
seg_old_smoker ==
    [id |-> "seg_old_smoker", name |-> "Elderly Smokers",
     condition |-> "issue_age > 65 and smoker_status == 'Smoker'", ae_ratio |-> "1.15",
     description |-> "Observed mortality is 15% higher than predicted. Potential model underestimation of smoker impact at older ages.",
     key_drivers |-> <<"issue_age", "smoker_status">>]
KnowledgeBaseSegments == <<seg_young_select, seg_old_smoker>>

\* risk_segments.json as generate_artifacts.py writes it
segment_high_risk_elderly ==
    [id |-> "segment_high_risk_elderly", name |-> "High Risk: Elderly Smokers",
     condition |-> "issue_age > 65 and smoker_status == 'Smoker'", ae_ratio |-> "1.25",
     description |-> "Mortality significantly higher than base expectation (A/E 1.25). Likely influenced by COVID-19 impact in 2020-2021.",
     key_drivers |-> <<"issue_age", "smoker_status">>, avg_mortality |-> "0.0412"]
segment_low_risk_young ==
    [id |-> "segment_low_risk_young", name |-> "Low Risk: Young Preferred",
     condition |-> "issue_age < 35 and preferred_class == 'Super Pref'", ae_ratio |-> "0.85",
     description |-> "Very healthy cohort with extensive underwriting. Mortality is 15% better than standard expectation.",
     key_drivers |-> <<"issue_age", "preferred_class">>, avg_mortality |-> "0.0003"]
ArtifactSegments == <<segment_high_risk_elderly, segment_low_risk_young>>

\* registries edited by hand: conditions that do not compile or do not
\* evaluate, a segment without a condition, conditions that are Python
\* expressions but no comparisons of fields
EditedSegment(id, name, condition) == [id |-> id, name |-> name, condition |-> condition]
MalformedSegments ==
    <<EditedSegment("seg_cut_off", "Cut Off", "issue_age >"),
      EditedSegment("seg_text_threshold", "Text Threshold", "issue_age > 'sixty'"),
      EditedSegment("seg_unknown_field", "Unknown Field", "attained_age > 65"),
      EditedSegment("seg_division", "Division", "issue_age < 18 or 1/0"),
      seg_old_smoker>>
UnconditionedSegments ==
    <<seg_young_select, [id |-> "seg_draft", name |-> "Draft Cohort", ae_ratio |-> "1.0"],
      seg_old_smoker>>
CodeSegments ==
    <<EditedSegment("seg_shell", "Shell Command",
                    "__import__('os').system('true') == 0"),
      EditedSegment("seg_field_only", "Field Only", "issue_age"),
      EditedSegment("seg_file", "File Write", "open('/tmp/x', 'w').close()"),
      seg_old_smoker>>
ExitSegments == <<seg_young_select, EditedSegment("seg_exit", "Exit", "exit()")>>

\* the keys of a segment in the order the generators write them
SegmentKeys ==
    <<"id", "name", "condition", "ae_ratio", "description", "key_drivers", "avg_mortality">>

\* a segment as the JSON value json.load gave
segment_json(segment) ==
    LET keys == SelectSeq(SegmentKeys, LAMBDA key : key \in DOMAIN segment)
        field(key) ==
            IF key = "key_drivers"
            THEN JList([i \in DOMAIN segment[key] |-> JStr(segment[key][i])])
            ELSE IF key \in {"ae_ratio", "avg_mortality"} THEN JNum(segment[key])
            ELSE JStr(segment[key])
    IN JDict([i \in DOMAIN keys |-> <<keys[i], field(keys[i])>>])

\* eda_summary.json and shap_analysis.json (generate_knowledge_base.py 52-123)
NumericalStats(mean, median, std, p90, corr) ==
    JDict(<< <<"mean", JNum(mean)>>, <<"median", JNum(median)>>, <<"std", JNum(std)>>,
             <<"p90", JNum(p90)>>, <<"corr_with_target", JNum(corr)>> >>)
CategoricalStats(distribution, avg_target) ==
    JDict(<< <<"distribution", JDict(distribution)>>,
             <<"avg_target_by_group", JDict(avg_target)>> >>)
EdaSummary ==
    JDict(<< <<"numerical_features",
               JDict(<< <<"issue_age", NumericalStats("49.6", "50.0", "17.3", "74.0", "0.12")>>,
                        <<"duration", NumericalStats("9.8", "10.0", "5.5", "18.0", "0.03")>> >>)>>,
             <<"categorical_features",
               JDict(<< <<"smoker_status",
                          CategoricalStats(<< <<"Non-Smoker", JNum("0.85")>>, <<"Smoker", JNum("0.15")>> >>,
                                           << <<"Non-Smoker", JNum("0.004")>>, <<"Smoker", JNum("0.011")>> >>)>>
                     >>)>> >>)
ShapAnalysis ==
    JDict(<< <<"global_feature_importance",
               JDict(<< <<"issue_age", JNum("0.45")>>, <<"smoker_status", JNum("0.25")>>,
                        <<"duration", JNum("0.15")>>, <<"face_amount", JNum("0.05")>>,
                        <<"preferred_class", JNum("0.05")>>, <<"gender", JNum("0.05")>> >>)>>,
             <<"local_examples", JList(<<>>)>> >>)
\* _load_json of a missing file
MissingJson == JDict(<<>>)

\* external_knowledge/*.md as <<file name, content>>
ExternalDocs ==
    << <<"doc_covid_impact.md",
         "# COVID-19 Impact on Mortality (2020-2021)\n\nOlder Age Groups (65+) experienced the highest excess mortality.\n">>,
       <<"doc_preferred_class.md",
         "# Preferred Class Definitions and Trends\n\nSuper Pref: excellent health. Standard: average health.\n">> >>

LegacyStore(risk_segments, eda_summary, shap_analysis, external_docs) ==
    [risk_segments |-> risk_segments, eda_summary |-> eda_summary,
     shap_analysis |-> shap_analysis, external_docs |-> external_docs]
WellFormedStores ==
    {LegacyStore(KnowledgeBaseSegments, EdaSummary, ShapAnalysis, ExternalDocs),
     LegacyStore(ArtifactSegments, EdaSummary, ShapAnalysis, ExternalDocs),
     LegacyStore(KnowledgeBaseSegments, MissingJson, MissingJson, <<>>),
     LegacyStore(<<>>, EdaSummary, ShapAnalysis, ExternalDocs)}
EditedStores ==
    {LegacyStore(MalformedSegments, EdaSummary, ShapAnalysis, ExternalDocs),
     LegacyStore(UnconditionedSegments, EdaSummary, ShapAnalysis, ExternalDocs),
     LegacyStore(CodeSegments, EdaSummary, ShapAnalysis, ExternalDocs),
     LegacyStore(ExitSegments, EdaSummary, ShapAnalysis, ExternalDocs)}
LegacyStores == WellFormedStores \cup EditedStores

\* the input_data dicts of verify_system.py, verify_qa_system.py and the
\* module self-tests, as items in insertion order
InputDicts ==
    { << <<"issue_age", PyInt(75)>>, <<"duration", PyInt(15)>>,
         <<"smoker_status", PyStr("Smoker")>>, <<"preferred_class", PyStr("Standard")>> >>,
      << <<"issue_age", PyInt(25)>>, <<"duration", PyInt(1)>>,
         <<"smoker_status", PyStr("Non-Smoker")>>, <<"preferred_class", PyStr("Super Pref")>> >>,
      << <<"issue_age", PyInt(40)>>, <<"preferred_class", PyStr("Super Pref")>> >>,
      << <<"issue_age", PyInt(75)>>, <<"smoker_status", PyStr("Smoker")>>,
         <<"preferred_class", PyStr("Standard")>>, <<"duration", PyInt(10)>> >>,
      << <<"issue_age", PyInt(70)>>, <<"smoker_status", PyStr("Non-Smoker")>> >>,
      << <<"issue_age", PyInt(40)>> >>,
      << <<"issue_age", PyInt(25)>>, <<"preferred_class", PyStr("Super Pref")>> >>,
      << <<"issue_age", PyInt(70)>>, <<"smoker_status", PyStr("Smoker")>>,
         <<"preferred_class", PyStr("Standard")>> >> }

\* the dict as the local names eval sees
locals_of(input_data) ==
    [key \in {input_data[k][1] : k \in DOMAIN input_data} |-> items_get(input_data, key, PyNone)]

\* str(value) of an int >= 0 or a str
py_str(value) == IF value.t = "int" THEN format_d(value.v) ELSE value.v

\* the dict as a JSON value
input_json(input_data) ==
    JDict([k \in DOMAIN input_data |->
              <<input_data[k][1],
                IF input_data[k][2].t = "int" THEN JNum(format_d(input_data[k][2].v))
                ELSE JStr(input_data[k][2].v)>>])

\* the number a JSON number text stands for, as a fraction
json_number(value) == float_of(value.s).value
fraction_less(a, b) == a[1] * b[2] < b[1] * a[2]

\* the EDA lines for the numerical features of the input, in input order,
\* from item k on (the values of the numerical features are numbers)
RECURSIVE eda_numerical_lines(_, _, _)
eda_numerical_lines(nums, input_data, k) ==
    IF k > Len(input_data) THEN <<>>
    ELSE LET feat == input_data[k][1]
             val == input_data[k][2]
             stats == items_get(nums, feat, MissingJson)
             p90 == items_get(stats.items, "p90", JNum("0"))
         IN (IF items_has(nums, feat)
                /\ fraction_less(json_number(p90), <<py_number(val).v, 1>>)
             THEN <<"Feature '" \o feat \o "' value " \o py_str(val)
                    \o " is in the top 10% (p90=" \o p90.s \o ").">>
             ELSE <<>>)
            \o eda_numerical_lines(nums, input_data, k + 1)

RECURSIVE eda_categorical_lines(_, _, _)
eda_categorical_lines(cats, input_data, k) ==
    IF k > Len(input_data) THEN <<>>
    ELSE LET feat == input_data[k][1]
             val == input_data[k][2]
             group_data == items_get(cats, feat, MissingJson)
             by_group == items_get(group_data.items, "avg_target_by_group", MissingJson)
             avg_mortality == items_get(by_group.items, py_str(val), JNum("N/A"))
         IN (IF items_has(cats, feat)
             THEN <<"Feature '" \o feat \o "'='" \o py_str(val)
                    \o "'. Group Avg Mortality: " \o avg_mortality.s \o ".">>
             ELSE <<>>)
            \o eda_categorical_lines(cats, input_data, k + 1)

\* sorted(items, key=value, reverse=True): stable, the larger value first
RECURSIVE sorted_by_value_desc(_)
sorted_by_value_desc(items) ==
    IF items = <<>> THEN <<>>
    ELSE LET first == CHOOSE k \in DOMAIN items :
                 /\ \A m \in DOMAIN items :
                        ~fraction_less(json_number(items[k][2]), json_number(items[m][2]))
                 /\ \A m \in 1..(k - 1) :
                        fraction_less(json_number(items[m][2]), json_number(items[k][2]))
         IN <<items[first]>>
            \o sorted_by_value_desc(SubSeq(items, 1, first - 1)
                                    \o SubSeq(items, first + 1, Len(items)))

\* the external documents find_relevant_context quotes
RECURSIVE external_context_from(_, _, _)
external_context_from(external_docs, input_data, k) ==
    IF k > Len(external_docs) THEN <<>>
    ELSE (IF str_contains(LowerStr(external_docs[k][1]), "preferred")
             /\ items_has(input_data, "preferred_class")
          THEN <<"Reference: " \o external_docs[k][1] \o "\nSummary: "
                 \o SubSeq(external_docs[k][2], 1, IF Len(external_docs[k][2]) < 200
                                                    THEN Len(external_docs[k][2]) ELSE 200)
                 \o "...">>
          ELSE <<>>)
         \o external_context_from(external_docs, input_data, k + 1)

\* KnowledgeBase.find_relevant_context (rag_engine.py): kind "value" with the
\* context dict, or the exception that leaves it
find_relevant_context(store, input_data) ==
    LET eda == store.eda_summary.items
        nums == items_get(eda, "numerical_features", MissingJson).items
        cats == items_get(eda, "categorical_features", MissingJson).items
        eda_context ==
            IF eda = <<>> THEN <<>>
            ELSE eda_numerical_lines(nums, input_data, 1)
                 \o eda_categorical_lines(cats, input_data, 1)
        global_imp ==
            items_get(store.shap_analysis.items, "global_feature_importance", MissingJson).items
        top == sorted_by_value_desc(global_imp)
        top_3 == SubSeq(top, 1, IF Len(top) < 3 THEN Len(top) ELSE 3)
        shap_context ==
            IF store.shap_analysis.items = <<>> THEN <<>>
            ELSE <<"Global Top Risk Drivers: "
                   \o join_items([k \in DOMAIN top_3 |-> top_3[k][1]], ", ") \o ".">>
    IN CHOOSE r \in
        {[kind |-> segments.kind, executed |-> segments.executed,
          matched |-> segments.matched,
          context |->
            JDict(<< <<"eda_context", JList([k \in DOMAIN eda_context |-> JStr(eda_context[k])])>>,
                     <<"risk_segment_context",
                       JList([k \in DOMAIN segments.matched |-> segment_json(segments.matched[k])])>>,
                     <<"shap_context", JList([k \in DOMAIN shap_context |-> JStr(shap_context[k])])>>,
                     <<"external_context", JList([k \in DOMAIN external |-> JStr(external[k])])>> >>)] :
           segments \in {match_risk_segments(store.risk_segments, locals_of(input_data),
                                             1, <<>>, FALSE)},
           external \in {external_context_from(store.external_docs, input_data, 1)}} : TRUE

\* the external documents get_query_context attaches
RECURSIVE relevant_external_docs_from(_, _, _)
relevant_external_docs_from(external_docs, input_data, k) ==
    IF k > Len(external_docs) THEN <<>>
    ELSE LET doc == JDict(<< <<"source", JStr(external_docs[k][1])>>,
                             <<"content", JStr(external_docs[k][2])>> >>)
             doc_name == LowerStr(external_docs[k][1])
         IN (IF str_contains(doc_name, "covid")
                /\ py_number(items_get(input_data, "issue_age", PyInt(0))).v > 65
             THEN <<doc>> ELSE <<>>)
            \o (IF str_contains(doc_name, "preferred") /\ items_has(input_data, "preferred_class")
                THEN <<doc>> ELSE <<>>)
            \o relevant_external_docs_from(external_docs, input_data, k + 1)

\* KnowledgeBase.get_query_context (rag_retriever.py)
get_query_context(store, input_data) ==
    CHOOSE r \in
        {[kind |-> segments.kind, executed |-> segments.executed,
          matched |-> segments.matched,
          context |->
            [matched_risk_segments |->
                JList([k \in DOMAIN segments.matched |-> segment_json(segments.matched[k])]),
             relevant_external_docs |-> JList(docs),
             shap_context |->
                IF store.shap_analysis.items = <<>> THEN JDict(<<>>)
                ELSE JDict(<< <<"global_importance",
                                items_get(store.shap_analysis.items,
                                          "global_feature_importance", MissingJson)>> >>)]] :
           segments \in {match_risk_segments(store.risk_segments, locals_of(input_data),
                                             1, <<>>, FALSE)},
           docs \in {relevant_external_docs_from(store.external_docs, input_data, 1)}} : TRUE

\* np.exp((age - 40) * 0.08) in units of 0.0000001, for the ages of InputDicts
AgeFactor == (25 :> 3011942) @@ (40 :> 10000000) @@ (70 :> 110231764) @@ (75 :> 164446468)

\* format(x, '.6f') for x >= 0 in units of 0.000001
format_6f(x) ==
    LET frac == format_d(x % 1000000)
    IN format_d(x \div 1000000) \o "." \o SubSeq("000000", 1, 6 - Len(frac)) \o frac

\* ModelExplainer._predict_mortality, in units of 0.0000000001
_predict_mortality(input_data) ==
    LET age == items_get(input_data, "issue_age", PyInt(40)).v
        dur == items_get(input_data, "duration", PyInt(5)).v
        smoker == items_get(input_data, "smoker_status", PyStr("Non-Smoker")).v
        with_smoker == IF smoker = "Smoker" THEN (AgeFactor[age] * 5) \div 2 ELSE AgeFactor[age]
    IN IF dur <= 2 THEN with_smoker \div 2 ELSE with_smoker

\* ExplanationSystem._mock_predict: the same with the preferred class factor
pref_factor_map ==
    ("Super Pref" :> <<3, 5>>) @@ ("Classic Pref" :> <<4, 5>>) @@ ("Standard" :> <<1, 1>>)
    @@ ("Substandard" :> <<3, 2>>)
_mock_predict(input_data) ==
    LET pref == items_get(input_data, "preferred_class", PyStr("Standard")).v
        pref_factor == IF pref \in DOMAIN pref_factor_map THEN pref_factor_map[pref] ELSE <<1, 1>>
    IN (_predict_mortality(input_data) * pref_factor[1]) \div pref_factor[2]

\* ModelExplainer.construct_llm_prompt: <<system_prompt, user_query>>
construct_llm_prompt(input_data, prediction, context) ==
    << "You are an actuarial model explainer assistant.\n"
       \o "Your goal is to explain a mortality rate of " \o format_6f(RoundDiv(prediction, 10000))
       \o " for a specific policyholder.\n\n"
       \o "Use the provided Context Information to justify the prediction.\n"
       \o "- Cite the \"EDA Stats\" to benchmark if values are high/low.\n"
       \o "- Explain \"Risk Segments\" if the user falls into one.\n"
       \o "- Use \"SHAP Drivers\" to mention key features.\n"
       \o "- Reference \"External Knowledge\" if relevant to the profile.\n\n"
       \o "Context Information:\n" \o json_dumps(context) \o "\n",
       "\n        Profile:\n        " \o json_dumps(input_json(input_data)) \o "\n        \n"
       \o "        Task: Explain why this mortality rate is predicted. Is it high or low risk? What are the main drivers?\n        " >>

\* ModelExplainer.explain_single_case: prediction, retrieval, prompting
explain_single_case(store, input_data) ==
    CHOOSE r \in
        {[kind |-> found.kind, executed |-> found.executed, matched |-> found.matched,
          system_prompt |-> "",
          prompt |-> IF found.kind = "value"
                     THEN CHOOSE p \in {parts[1] \o "\n" \o parts[2] :
                             parts \in {construct_llm_prompt(input_data,
                                            _predict_mortality(input_data), found.context)}} : TRUE
                     ELSE ""] :
           found \in {find_relevant_context(store, input_data)}} : TRUE

\* ExplanationSystem.construct_system_prompt
construct_system_prompt(store) ==
    LET eda == store.eda_summary.items
    IN "You are an expert Actuarial Model Assistant. \n"
       \o "Your goal is to explain mortality model predictions to reviewers.\n\n"
       \o "# GLOBAL DATA CONTEXT (What is \"Normal\"?)\n"
       \o "Use these statistics to judge if a user's values are high or low.\n\n"
       \o "## Numerical Features (Mean / P90)\n"
       \o json_dumps(items_get(eda, "numerical_features", MissingJson)) \o "\n\n"
       \o "## Categorical Features (Distribution)\n"
       \o json_dumps(items_get(eda, "categorical_features", MissingJson)) \o "\n\n"
       \o "# INSTRUCTIONS\n"
       \o "1. Always cite the \"Global Data Context\" to benchmark the user. (e.g. \"Age 75 is well above the p90 of 74\").\n"
       \o "2. If the user falls into a \"Risk Segment\", explain why their risk is High/Low using the provided A/E ratio.\n"
       \o "3. Use the SHAP values to explain the specific drivers of the prediction.\n"
       \o "4. If \"External Knowledge\" is provided (e.g. COVID), use it to add qualitative context.\n"

\* ExplanationSystem.construct_user_prompt
construct_user_prompt(input_data, prediction, context) ==
    "\n# TASK\nExplain the predicted mortality rate of **"
    \o format_6f(RoundDiv(prediction, 10000)) \o "** for the following policyholder.\n\n"
    \o "# POLICYHOLDER PROFILE\n" \o json_dumps(input_json(input_data)) \o "\n\n"
    \o "# RETRIEVED CONTEXT (Specific to this case)\n\n"
    \o "## 1. Risk Segments (Cohorts)\n" \o json_dumps(context.matched_risk_segments) \o "\n\n"
    \o "## 2. External Knowledge (Domain Context)\n"
    \o json_dumps(context.relevant_external_docs) \o "\n\n"
    \o "## 3. SHAP Analysis (Drivers)\n" \o json_dumps(context.shap_context) \o "\n\n"
    \o "# QUESTION\nWhy is this rate predicted? Is it reasonable?\n"

\* ExplanationSystem.run: prediction, retrieval, the two prompts;
\* construct_system_prompt subscripts the two feature tables of eda_summary,
\* a KeyError when eda_summary.json lacks them
run(store, input_data) ==
    LET eda == store.eda_summary.items
        tables == items_has(eda, "numerical_features") /\ items_has(eda, "categorical_features")
    IN CHOOSE r \in
        {[kind |-> IF found.kind = "value" /\ ~tables THEN "exception" ELSE found.kind,
          executed |-> found.executed, matched |-> found.matched,
          system_prompt |-> IF found.kind = "value" /\ tables
                            THEN construct_system_prompt(store) ELSE "",
          prompt |-> IF found.kind = "value" /\ tables
                     THEN construct_user_prompt(input_data, _mock_predict(input_data),
                                                found.context)
                     ELSE ""] :
           found \in {get_query_context(store, input_data)}} : TRUE

(***************************************************************************)
(* The legacy retrieval as a state machine: a knowledge base directory is  *)
(* loaded, then the callers' entry points are called with input dicts. rag *)
(* holds the store and what the last call gave. A SystemExit leaving a     *)
(* call ends the program.                                                  *)
(***************************************************************************)
RagCalls == {"explain_single_case", "find_relevant_context", "run", "get_query_context"}

RagInit ==
    /\ \E store \in LegacyStores :
          rag = [store |-> store, call |-> "none", input |-> <<>>, kind |-> "value",
                 executed |-> FALSE, matched |-> <<>>, system_prompt |-> "", prompt |-> ""]
    /\ ValIdle /\ LlmIdle /\ KbIdle /\ GenIdle
    /\ share = <<>> /\ match = <<>> /\ ctx = <<>> /\ demo = <<>> /\ asm = <<>> /\ pred = <<>>

RagResult(call, input_data, out) ==
    /\ rag.kind /= "exit"
    /\ rag' = [store |-> rag.store, call |-> call, input |-> input_data, kind |-> out.kind,
               executed |-> out.executed, matched |-> out.matched,
               system_prompt |-> out.system_prompt, prompt |-> out.prompt]
    /\ UNCHANGED <<valVars, llmVars, kbVars, genVars, share, match, ctx, demo, asm, pred>>

\* ModelExplainer.explain_single_case(input_data)
ExplainSingleCase(input_data) ==
    RagResult("explain_single_case", input_data, explain_single_case(rag.store, input_data))

\* KnowledgeBase.find_relevant_context(input_data) of rag_engine.py
FindRelevantContext(input_data) ==
    LET found == find_relevant_context(rag.store, input_data)
    IN RagResult("find_relevant_context", input_data,
                 [kind |-> found.kind, executed |-> found.executed, matched |-> found.matched,
                  system_prompt |-> "", prompt |-> ""])

\* ExplanationSystem.run(input_data)
Run(input_data) == RagResult("run", input_data, run(rag.store, input_data))

\* KnowledgeBase.get_query_context(input_data) of rag_retriever.py
GetQueryContext(input_data) ==
    LET found == get_query_context(rag.store, input_data)
    IN RagResult("get_query_context", input_data,
                 [kind |-> found.kind, executed |-> found.executed, matched |-> found.matched,
                  system_prompt |-> "", prompt |-> ""])

RagNext ==
    \E input_data \in InputDicts :
        \/ ExplainSingleCase(input_data)
        \/ FindRelevantContext(input_data)
        \/ Run(input_data)
        \/ GetQueryContext(input_data)

SpecRag == RagInit /\ [][RagNext]_vars

\* the segments of the registry no input can belong to: the condition is
\* absent, incomplete, compares a number with a text, names no field of the
\* input, or divides by zero
NonMatchingIds ==
    {"seg_draft", "seg_cut_off", "seg_text_threshold", "seg_unknown_field", "seg_division"}
MatchedIds == {rag.matched[k].id : k \in DOMAIN rag.matched}

\* C22: a condition that cannot be evaluated is a non-match and never an
\* error: a call of find_relevant_context or get_query_context returns
\* normally, with no exception, and the segments it matched include no
\* segment whose condition is absent or malformed.
C22_MalformedIsNoMatch ==
    rag.call \in {"find_relevant_context", "get_query_context"} =>
        /\ rag.kind /= "exception"
        /\ MatchedIds \cap NonMatchingIds = {}

\* the restricted grammar: comparisons of a whitelisted field name with a
\* literal, joined by and / or
WhitelistedFields ==
    {"issue_age", "duration", "face_amount", "smoker_status", "preferred_class", "gender",
     "plan_type"}
InGrammar(condition) ==
    LET clauses == parse_condition(condition)
    IN \A i \in DOMAIN clauses : \A j \in DOMAIN clauses[i] :
          /\ clauses[i][j][1] \in ComparisonOperators
          /\ clauses[i][j][2] \in WhitelistedFields
          /\ IsIntLiteral(clauses[i][j][3]) \/ IsStringLiteral(clauses[i][j][3])

\* C23: conditions are evaluated in the restricted grammar only: no call
\* runs a condition as code, no call is left by way of a condition ending
\* the interpreter, and every matched segment has a condition of the grammar.
C23_RestrictedGrammarOnly ==
    rag.call /= "none" =>
        /\ ~rag.executed
        /\ rag.kind /= "exit"
        /\ \A k \in DOMAIN rag.matched : InGrammar(rag.matched[k].condition)

\* whether the input belongs to a segment of the generated registries, from
\* the meaning of its condition
HasField(input_data, key) == items_has(input_data, key)
FieldOf(input_data, key) == items_get(input_data, key, PyNone).v
ConditionHolds(id, d) ==
    IF id \in {"seg_old_smoker", "segment_high_risk_elderly"}
    THEN /\ HasField(d, "issue_age") /\ HasField(d, "smoker_status")
         /\ FieldOf(d, "issue_age") > 65 /\ FieldOf(d, "smoker_status") = "Smoker"
    ELSE IF id = "seg_young_select"
    THEN /\ HasField(d, "issue_age") /\ HasField(d, "duration")
         /\ FieldOf(d, "issue_age") < 35 /\ FieldOf(d, "duration") <= 2
    ELSE /\ id = "segment_low_risk_young"
         /\ HasField(d, "issue_age") /\ HasField(d, "preferred_class")
         /\ FieldOf(d, "issue_age") < 35 /\ FieldOf(d, "preferred_class") = "Super Pref"
HoldingSegments(registry, d) ==
    SelectSeq(registry, LAMBDA segment : ConditionHolds(segment.id, d))

Times(n, part) == [k \in 1..n |-> part]
Least(a, b) == IF a < b THEN a ELSE b

\* PromptContext values: how many SHAP contributions, percentiles and
\* categories the context lists, and its two segments
ShapCounts == {0, 1, 5, 6}
PromptContexts ==
    [shap_contributions : ShapCounts, percentiles : 0..2, categories : 0..1,
     coverage_segment : BOOLEAN, spotlight_segment : BOOLEAN]

\* LLMClient._build_context_prompt: the lines, in order
_build_context_prompt(context) ==
    <<"## prediction", "- mortality rate", "- relative risk", "- overall death rate">>
    \o <<"## shap contributions">>
    \o Times(Least(context.shap_contributions, TopShapFeatures), "- contribution")
    \o <<"## population">>
    \o Times(context.percentiles, "- percentile") \o Times(context.categories, "- category")
    \o (IF context.coverage_segment
        THEN <<"## coverage segment", "- segment", "- a/e", "- rr">> ELSE <<>>)
    \o (IF context.spotlight_segment
        THEN <<"## spotlight segment", "- segment", "- risk level", "- rr">> ELSE <<>>)
    \o <<"## calibration", "- overall a/e">>
    \o <<"---", "task", "task">>

\* the reports _build_user_prompt is called with: the two segments
AssembledReports ==
    [coverage_segment : {None, Loaded([segment_id |-> "COV_001"])},
     spotlight_alert : {None, Loaded([segment_id |-> "SPOT_001"])}]

\* the files of the knowledge base directory that load_json / load_text
\* find with content
PromptFiles ==
    {"model_contract.json", "numerical_summary.json", "categorical_summary.json",
     "overall_ae.json", "yearly_ae.json", "global_importance.json", "insight.md",
     "coverage_registry.json", "spotlight_summary.json", "README.md"}

\* prompt_builder.build_system_prompt: the sections, in order
build_system_prompt(present) ==
    LET section(file, parts) == IF file \in present THEN parts ELSE <<>>
    IN <<"core principles">>
       \o section("model_contract.json", <<"model contract">>)
       \o section("numerical_summary.json", <<"numerical statistics">>)
       \o section("categorical_summary.json", <<"categorical distribution">>)
       \o section("overall_ae.json", <<"calibration">>)
       \o section("yearly_ae.json", <<"yearly calibration">>)
       \o section("global_importance.json", <<"global importance">>)
       \o section("insight.md", <<"eda insights">>)
       \o section("coverage_registry.json", <<"coverage segment">>)
       \o section("spotlight_summary.json", <<"spotlight segment">>)
       \o section("README.md", <<"methodology">>)
       \o <<"key metrics">>

\* the builder called with its input
assemble(builder, input) ==
    IF builder = "_build_context_prompt" THEN _build_context_prompt(input)
    ELSE IF builder = "_build_system_prompt" THEN _build_system_prompt(input)
    ELSE IF builder = "_build_user_prompt" THEN _build_user_prompt(input)
    ELSE build_system_prompt(input)

AssembleInit ==
    /\ asm = [builder |-> "none", input |-> <<>>, prompt |-> <<>>,
              repeated |-> FALSE, previous |-> <<>>]
    /\ ValIdle /\ LlmIdle /\ KbIdle /\ GenIdle
    /\ share = <<>> /\ match = <<>> /\ ctx = <<>> /\ demo = <<>> /\ rag = <<>> /\ pred = <<>>

\* one call of a builder; repeated tells that the call before was the same
\* builder on the same input, and previous is then what that call gave
Assemble(builder, input) ==
    /\ asm' = [builder |-> builder, input |-> input, prompt |-> assemble(builder, input),
               repeated |-> (asm.builder = builder /\ asm.input = input),
               previous |-> IF asm.builder = builder /\ asm.input = input
                            THEN asm.prompt ELSE <<>>]
    /\ UNCHANGED <<valVars, llmVars, kbVars, genVars, share, match, ctx, demo, rag, pred>>

BuildContextPrompt == \E context \in PromptContexts : Assemble("_build_context_prompt", context)
BuildSystemPrompt == \E store \in GenStores : Assemble("_build_system_prompt", store)
BuildUserPrompt == \E report \in AssembledReports : Assemble("_build_user_prompt", report)
PromptBuilderSystemPrompt ==
    \E present \in SUBSET PromptFiles : Assemble("build_system_prompt", present)

AssembleNext ==
    \/ BuildContextPrompt
    \/ BuildSystemPrompt
    \/ BuildUserPrompt
    \/ PromptBuilderSystemPrompt

SpecAssemble == AssembleInit /\ [][AssembleNext]_vars

\* the place of a part in the documented order: statistics, calibration,
\* importance, segments, task instructions; 0 for a part of no such kind
SubsectionRank(part) ==
    IF part \in {"numerical statistics", "categorical distribution"} THEN 1
    ELSE IF part \in {"calibration", "## calibration", "yearly calibration"} THEN 2
    ELSE IF part \in {"global importance", "shap contributions", "## shap contributions"} THEN 3
    ELSE IF part \in {"coverage segment", "spotlight segment", "## coverage segment",
                      "## spotlight segment"} THEN 4
    ELSE IF part = "task" THEN 5
    ELSE 0
InDocumentedOrder(prompt) ==
    \A i, j \in DOMAIN prompt :
        (i < j /\ SubsectionRank(prompt[i]) > 0 /\ SubsectionRank(prompt[j]) > 0)
            => SubsectionRank(prompt[i]) <= SubsectionRank(prompt[j])

\* C25: in every assembled block the subsections that are present come in
\* the order statistics, calibration, importance, segments, task
\* instructions, and a block assembled again from the same input is the same.
C25_FixedSubsectionOrder ==
    /\ InDocumentedOrder(asm.prompt)
    /\ asm.repeated => asm.prompt = asm.previous

(***************************************************************************)
(* Progress of the generation client. A request waits in client.invoke /   *)
(* structured_llm.invoke (llm.py 116, 178, 244) until the external service *)
(* answers or the call raises; generate_insights and generate take no      *)
(* timeout and no cancellation argument and the client is constructed      *)
(* without one (llm.py 75-79, 88-92, 226-231), so the code has no step of  *)
(* its own that ends the wait. The services of all requests but one are    *)
(* taken to answer; the remaining one may stay silent.                     *)
(***************************************************************************)
Waiting(r) == req[r].pc \in {"structured", "fallback", "loop"}

\* the external call of request r returns or raises
Responds(r) ==
    \/ \E reply \in StructuredOutcomes : StructuredInvoke(r, reply)
    \/ \E reply \in PlainOutcomes : FallbackGenerate(r, reply)
    \/ \E reply \in TextOutcomes : GenerateAttempt(r, reply)

SilentRequest == CHOOSE r \in Requests : TRUE

SpecLLMLive ==
    /\ LlmInit /\ [][LlmNext]_vars
    /\ \A r \in Requests \ {SilentRequest} : WF_vars(Responds(r))

\* a request whose service answers returns, whatever the silent one does
AnsweredRequestsReturn ==
    \A r \in Requests \ {SilentRequest} : Waiting(r) ~> ~Waiting(r)

\* C26: a request whose external generation call never responds still
\* returns to its caller eventually: every request that waits in an external
\* call leaves the wait.
C26_ReturnsDespiteSilence == \A r \in Requests : Waiting(r) ~> ~Waiting(r)

(***************************************************************************)
(* MortalityPredictor.predict on a loaded model, called by two threads on  *)
(* one predictor (predictor.py 73-123). self.encoders is the only state    *)
(* the calls share: a dict from feature to LabelEncoder object, filled     *)
(* lazily. A thread step is one access to the dict or to an encoder        *)
(* object; the accesses of different threads interleave freely.            *)
(***************************************************************************)
CATEGORICAL_FEATURES ==
    <<"Sex", "Smoker_Status", "Insurance_Plan", "Face_Amount_Band", "Preferred_Class",
      "SOA_Post_Lvl_Ind", "SOA_Antp_Lvl_TP", "SOA_Guar_Lvl_TP">>
IsCategorical(feat) == \E k \in DOMAIN CATEGORICAL_FEATURES : CATEGORICAL_FEATURES[k] = feat
CategoricalSet == {CATEGORICAL_FEATURES[k] : k \in DOMAIN CATEGORICAL_FEATURES}

Workers == {"w1", "w2"}
\* encoder objects: the one an earlier call left, and the one each thread creates
EncoderIds == {"earlier"} \cup Workers

\* features.get(feat, 0) and str() of it; categorical values are strings
feature_value(record, feat) == IF feat \in DOMAIN record THEN record[feat] ELSE 0
str_value(record, feat) == IF feat \in DOMAIN record THEN record[feat] ELSE "0"

\* LabelEncoder: classes_ after fit([label]); "unfitted" before fit
label_fit(label) == <<label>>
\* LabelEncoder.transform([label])[0]: the index of the label in classes_;
\* NotFittedError (a ValueError) before fit, ValueError for an unseen label
label_transform(classes, label) ==
    IF classes = "unfitted" THEN Raised
    ELSE IF \E k \in DOMAIN classes : classes[k] = label
    THEN Value((CHOOSE k \in DOMAIN classes : classes[k] = label) - 1)
    ELSE Raised
\* variant of encoded_or_zero: an unknown category is encoded as -1
encoded_or_minus_one(classes, label) ==
    LET out == label_transform(classes, label) IN IF out.exc THEN -1 ELSE out.value
\* try: transform ... except ValueError: val = 0
encoded_or_zero(classes, label) ==
    LET out == label_transform(classes, label) IN IF out.exc THEN 0 ELSE out.value

\* model.predict([X])[0]: the loaded model is read only, the prediction is a
\* function of the feature vector
model_predict(X) == [model_input |-> X]

\* _prepare_features on a predictor no other call uses and none has used
RECURSIVE prepare_alone(_, _)
prepare_alone(record, i) ==
    IF i > Len(FEATURES) THEN <<>>
    ELSE <<IF IsCategorical(FEATURES[i])
           THEN encoded_or_zero(label_fit(str_value(record, FEATURES[i])),
                                str_value(record, FEATURES[i]))
           ELSE feature_value(record, FEATURES[i])>>
         \o prepare_alone(record, i + 1)

IdleWorker(record) == [record |-> record, pc |-> "called", i |-> 1, ref |-> "none", X |-> <<>>,
                       result |-> <<>>]
NoEncoders == [feat \in CategoricalSet |-> "absent"]
NoObjects == [feat \in CategoricalSet |-> [id \in EncoderIds |-> "none"]]

\* the predictor before the two calls: fresh, or as an earlier call on a
\* record left it (every categorical feature fitted on that record's value)
PredictorInit ==
    /\ \E earlier \in {<<>>} \cup {<<r>> : r \in InputRecords} :
       \E records \in [Workers -> InputRecords] :
          pred = [encoders |-> IF earlier = <<>> THEN NoEncoders
                               ELSE [feat \in CategoricalSet |-> "earlier"],
                  objects |-> IF earlier = <<>> THEN NoObjects
                              ELSE [feat \in CategoricalSet |->
                                      [id \in EncoderIds |->
                                          IF id = "earlier"
                                          THEN label_fit(str_value(earlier[1], feat))
                                          ELSE "none"]],
                  worker |-> [w \in Workers |-> IdleWorker(records[w])]]
    /\ ValIdle /\ LlmIdle /\ KbIdle /\ GenIdle
    /\ share = <<>> /\ match = <<>> /\ ctx = <<>> /\ demo = <<>> /\ rag = <<>> /\ asm = <<>>

\* the threads holding an encoder object of the feature they looked up
holders(worker, feat) ==
    {w \in Workers : /\ worker[w].pc \in {"fit", "transform"}
                     /\ FEATURES[worker[w].i] = feat}

\* which object is which matters only through the references to it: an
\* object no dict entry and no thread refers to is dropped, and the object
\* of a dict entry that no thread holds is named as the one an earlier call
\* left
collected_entry(encoders, worker, feat) ==
    IF encoders[feat] /= "absent" /\ holders(worker, feat) = {} THEN "earlier"
    ELSE encoders[feat]
collected_objects(encoders, objects, worker, feat) ==
    [id \in EncoderIds |->
        IF holders(worker, feat) = {}
        THEN IF id = "earlier" /\ encoders[feat] /= "absent"
             THEN objects[feat][encoders[feat]] ELSE "none"
        ELSE IF encoders[feat] = id \/ \E w \in holders(worker, feat) : worker[w].ref = id
             THEN objects[feat][id] ELSE "none"]

PredictorStep(w, encoders, objects, me) ==
    /\ LET worker == [pred.worker EXCEPT ![w] = me]
       IN pred' = [encoders |-> [feat \in CategoricalSet |->
                                    collected_entry(encoders, worker, feat)],
                   objects |-> [feat \in CategoricalSet |->
                                    collected_objects(encoders, objects, worker, feat)],
                   worker |-> worker]
    /\ UNCHANGED <<valVars, llmVars, kbVars, genVars, share, match, ctx, demo, rag, asm>>

\* where the loop goes after feature i
after_feature(me, val) ==
    [me EXCEPT !.X = Append(@, val), !.ref = "none", !.i = @ + 1,
               !.pc = IF me.i = Len(FEATURES) THEN "predict"
                      ELSE IF IsCategorical(FEATURES[me.i + 1]) THEN "check" ELSE "numeric"]

\* predict entered: the loop of _prepare_features starts
PredictCall(w) ==
    LET me == pred.worker[w]
    IN /\ me.pc = "called"
       /\ PredictorStep(w, pred.encoders, pred.objects,
             [me EXCEPT !.pc = IF IsCategorical(FEATURES[1]) THEN "check" ELSE "numeric"])

\* a feature that is not categorical: X.append(val)
AppendNumeric(w) ==
    LET me == pred.worker[w]
    IN /\ me.pc = "numeric"
       /\ PredictorStep(w, pred.encoders, pred.objects,
             after_feature(me, feature_value(me.record, FEATURES[me.i])))

\* if feat not in self.encoders
CheckEncoder(w) ==
    LET me == pred.worker[w]
    IN /\ me.pc = "check"
       /\ PredictorStep(w, pred.encoders, pred.objects,
             [me EXCEPT !.pc = IF pred.encoders[FEATURES[me.i]] = "absent"
                               THEN "create" ELSE "lookup_transform"])

\* self.encoders[feat] = LabelEncoder()
CreateEncoder(w) ==
    LET me == pred.worker[w]
        feat == FEATURES[me.i]
    IN /\ me.pc = "create"
       /\ PredictorStep(w, [pred.encoders EXCEPT ![feat] = w],
             [pred.objects EXCEPT ![feat][w] = "unfitted"],
             [me EXCEPT !.pc = "lookup_fit"])

\* self.encoders[feat] of the fit statement and of the transform statement
LookupEncoder(w) ==
    LET me == pred.worker[w]
    IN /\ me.pc \in {"lookup_fit", "lookup_transform"}
       /\ PredictorStep(w, pred.encoders, pred.objects,
             [me EXCEPT !.ref = pred.encoders[FEATURES[me.i]],
                        !.pc = IF me.pc = "lookup_fit" THEN "fit" ELSE "transform"])

\* .fit([str(val)]) on the object looked up
FitEncoder(w) ==
    LET me == pred.worker[w]
        feat == FEATURES[me.i]
    IN /\ me.pc = "fit"
       /\ PredictorStep(w, pred.encoders,
             [pred.objects EXCEPT ![feat][me.ref] = label_fit(str_value(me.record, feat))],
             [me EXCEPT !.pc = "lookup_transform", !.ref = "none"])

\* .transform([str(val)])[0] on the object looked up, 0 on ValueError
TransformValue(w) ==
    LET me == pred.worker[w]
        feat == FEATURES[me.i]
    IN /\ me.pc = "transform"
       /\ PredictorStep(w, pred.encoders, pred.objects,
             after_feature(me, encoded_or_zero(pred.objects[feat][me.ref],
                                               str_value(me.record, feat))))

\* self.model.predict([X])[0] and the return
ModelPredict(w) ==
    LET me == pred.worker[w]
    IN /\ me.pc = "predict"
       /\ PredictorStep(w, pred.encoders, pred.objects,
             [me EXCEPT !.pc = "returned", !.result = <<model_predict(me.X)>>])

PredictorNext ==
    \E w \in Workers :
        \/ PredictCall(w)
        \/ AppendNumeric(w)
        \/ CheckEncoder(w)
        \/ CreateEncoder(w)
        \/ LookupEncoder(w)
        \/ FitEncoder(w)
        \/ TransformValue(w)
        \/ ModelPredict(w)

SpecPredictor == PredictorInit /\ [][PredictorNext]_vars

Loaders == {t \in Callers : share.callers[t].pc \notin {"start", "construct", "return", "returned"}
                            \/ share.heap[t] /= NewKnowledgeBase}

\* C28: single load: in every interleaving of get_knowledge_base calls the
\* artifacts are loaded at most once, and any two callers that returned hold
\* the same KnowledgeBase instance.
C28_SingleLoad ==
    /\ Cardinality(Loaders) <= 1
    /\ \A t1, t2 \in Callers :
          (share.callers[t1].pc = "returned" /\ share.callers[t2].pc = "returned")
              => share.callers[t1].ret = share.callers[t2].ret


\* ---------------------------------------------------------------------------
\* Caller-supplied prediction (generator.py 89-96, 120-122)
\* ---------------------------------------------------------------------------

\* C29: whenever the prediction argument of generate is given, step 1 leaves
\* it as it is, whether or not shap_values is given too, so that the reported
\* mortality_rate and the relative risk are computed from the caller's value;
\* the predictor or the mock default supplies the rate only when no
\* prediction was given.
C29_SuppliedPredictionKept ==
    [][(gen.pc = "start" /\ gen.prediction.given /\ gen'.pc = "predicted")
           => gen'.prediction = gen.prediction]_vars

\* ---------------------------------------------------------------------------
\* Leaf ids and attached segments (generator.py 102-104, matcher.py 24-52)
\* ---------------------------------------------------------------------------

\* C30: once generate built its report, every supplied leaf id that has a
\* record in the coverage (spotlight) registry, leaf id 0 included, has that
\* record attached as coverage_segment (spotlight_alert).
C30_RecordedLeafAttached ==
    gen.pc \in {"generated", "returned"} =>
        /\ (gen.coverage_leaf_id.given
               /\ match_coverage(kb, gen.coverage_leaf_id.v) /= None)
              => gen.report.coverage_segment = match_coverage(kb, gen.coverage_leaf_id.v)
        /\ (gen.spotlight_leaf_id.given
               /\ match_spotlight(kb, gen.spotlight_leaf_id.v) /= None)
              => gen.report.spotlight_alert = match_spotlight(kb, gen.spotlight_leaf_id.v)
====
